---- MODULE Spec2Model ----
(***************************************************************************)
(* A model of the deploy pipeline of the `case` command line tool: the     *)
(* cache file, process_deploy (src/src/deploy/process.rs), the delta       *)
(* generator and the concurrent uploader it drives, and the remote program *)
(* those writes land on.                                                   *)
(*                                                                         *)
(* process_deploy is modelled step by step at its network calls and cache  *)
(* writes, so that a crash or an operator interrupt can fall between any   *)
(* two of them.  generate_config_lines and upload_config_lines are called  *)
(* by process_deploy but their bodies are not part of the sources at hand; *)
(* they are modelled from sections 4.2 and 4.3 of the design document.     *)
(*                                                                         *)
(* The other commands that work on the deployed program (set-collection,   *)
(* remove-collection, mint, update, withdraw) are modelled as single steps *)
(* taken between deploys; OpsSpec runs them together with the deploy.      *)
(*                                                                         *)
(* Spec takes the checkpoint after the creation and each worker's          *)
(* recording of a confirmation as one step each, and has the operator      *)
(* interrupt during the upload only.  StepSpec takes those steps apart     *)
(* (lock, mark, write, rename) and lets the interrupt fall at any time.    *)
(***************************************************************************)
EXTENDS Integers, Sequences, FiniteSets, TLC

\* ------------------------------------------------------------------ bounds

\* The largest number of ordinary items a cache or a config may declare.
MaxItems == 3
\* The uploader's bound on writes in flight at once.
MaxWorkers == 2
\* How many times a transient failure of one write is retried.
MaxRetries == 1
\* How many remote accounts may be created over all runs.
MaxAccounts == 2
\* How many items may be minted from the program over all runs.
MaxRedeemed == 1

\* ------------------------------------------------------------------ cache

\* The key "-1" of the cache's item map: the collection item.
COLLECTION == -1

Indices == 0 .. (MaxItems - 1)

Keys == Indices \cup {COLLECTION}

\* A name or a metadata link: empty, well formed, or too long for check_name /
\* check_url.
FieldValues == {"", "ok", "long"}

\* The item as the upload command records it: not yet on chain.
NewItem == [name |-> "ok", metadata_link |-> "ok", on_chain |-> FALSE]

\* Cache::new(): no items, no program address, no collection mint.
\* An address is 0 (the empty string) or the number of the account it names.
EmptyCache == [items |-> << >>, tars |-> 0, collection_mint |-> 0]

\* No file at the path: what load_cache meets when the cache file is absent,
\* and the temporary file of persist when none is left behind.
NoFile == [items |-> << >>, tars |-> -3, collection_mint |-> 0]

\* An address of the cache that Pubkey::from_str refuses.
InvalidAddress == -2

\* An address that parses and names no account of the ledger.
StaleAddress == MaxAccounts + 1

\* cache.items.get(key).is_some()
HasItem(c, k) == k \in DOMAIN c.items

\* The cache records index k as written to the remote program.
OnChain(c, k) == HasItem(c, k) /\ c.items[k].on_chain

\* The in-memory mutator that records one item (insert or replace).
upsert(c, k, rec) ==
    [c EXCEPT !.items = [x \in (DOMAIN c.items) \cup {k} |->
                            IF x = k THEN rec ELSE c.items[x]]]

\* The in-memory mutator that drops one item (shift_remove).
remove(c, k) ==
    [c EXCEPT !.items = [x \in (DOMAIN c.items) \ {k} |-> c.items[x]]]

\* The caches the upload command can leave behind for `n` assets: items
\* 0 .. n-1, optionally the collection item, nothing on chain, no program yet.
FreshCache(n, withCollection) ==
    [items |-> [k \in (0 .. (n - 1)) \cup (IF withCollection THEN {COLLECTION} ELSE {})
                    |-> NewItem],
     tars |-> 0,
     collection_mint |-> 0]

\* ------------------------------------------------------- process_deploy: checks

\* let collection_in_cache = cache.items.get("-1").is_some();
collection_in_cache(c) == HasItem(c, COLLECTION)

\* The collection item included: the count a forgotten subtraction would give.
cache_items_len(c) == Cardinality(DOMAIN c.items)

\* let cache_items_sans_collection = (cache.items.len() - collection_in_cache as usize)
cache_items_sans_collection(c) ==
    Cardinality(DOMAIN c.items) - (IF collection_in_cache(c) THEN 1 ELSE 0)

\* load_cache(path, allow_missing): the cache of the file; without the file,
\* an error, or with allow_missing a new cache.
load_cache(file, allow_missing) ==
    IF file # NoFile THEN [ok |-> TRUE, cache |-> file]
    ELSE [ok |-> allow_missing, cache |-> EmptyCache]

\* A test that lets a cache without items through.
cache_is_empty_never(c) == FALSE

\* if cache.items.is_empty() { .. return Err(CacheError::CacheFileNotFound(..)) }
cache_is_empty(c) == c.items = << >>

\* A check that takes an empty name or link for a good one.
item_check_lax(item) ==
    IF item.name = "long" THEN "InvalidName"
    ELSE IF item.metadata_link = "long" THEN "InvalidUrl"
    ELSE "ok"

\* The check of one item's fields in the loop over cache.items: the error it
\* returns, or "ok".
item_check(item) ==
    IF item.name = "" THEN "MissingName"
    ELSE IF item.name = "long" THEN "InvalidName"
    ELSE IF item.metadata_link = "" THEN "MissingMetadataLink"
    ELSE IF item.metadata_link = "long" THEN "InvalidUrl"
    ELSE "ok"

\* The errors the loop over cache.items can return: the one of the first item, in
\* the map's insertion order, that fails its check.  The order of the file's
\* entries is not fixed by the sources, so any failing item may be the first.
item_errors(c) == {item_check(c.items[k]) : k \in DOMAIN c.items} \ {"ok"}

\* let total_steps = 2 + (collection_in_cache as u8) - (hidden as u8);
total_steps(c, hidden) ==
    2 + (IF collection_in_cache(c) THEN 1 ELSE 0) - (IF hidden THEN 1 ELSE 0)

\* ------------------------------------------------------------ delta generator

\* Whether index i is written by this run: the cache has no record of it, or its
\* record is not on chain.
needs_write(c, i) == ~HasItem(c, i) \/ ~c.items[i].on_chain

\* An off-by-one enumeration: the last index is never looked at.
RECURSIVE delta_short(_, _, _)
delta_short(c, i, n) ==
    IF i >= n - 1 THEN << >>
    ELSE (IF needs_write(c, i) THEN << i >> ELSE << >>) \o delta_short(c, i + 1, n)

\* An enumeration that includes every index, on chain or not.
RECURSIVE delta_all(_, _, _)
delta_all(c, i, n) ==
    IF i >= n THEN << >> ELSE << i >> \o delta_all(c, i + 1, n)

\* The enumeration of i, i+1, .. n-1 in that order, keeping the indices to write.
RECURSIVE delta_from(_, _, _)
delta_from(c, i, n) ==
    IF i >= n THEN << >>
    ELSE (IF needs_write(c, i) THEN << i >> ELSE << >>) \o delta_from(c, i + 1, n)

\* An included item with an empty name or an empty metadata link.
missing_field(c, lines) ==
    \E p \in 1 .. Len(lines) :
        /\ HasItem(c, lines[p])
        /\ c.items[lines[p]].name = "" \/ c.items[lines[p]].metadata_link = ""

\* generate(desired_count, cache): the delta, or the error it fails with.
generate_config_lines(num_items, c) ==
    IF cache_items_sans_collection(c) # num_items
    THEN [ok |-> FALSE, err |-> "CountMismatch", lines |-> << >>]
    ELSE LET lines == delta_from(c, 0, num_items)
         IN  IF missing_field(c, lines)
             THEN [ok |-> FALSE, err |-> "MissingField", lines |-> << >>]
             ELSE [ok |-> TRUE, err |-> "", lines |-> lines]

\* The set of the elements of a sequence.
Range(s) == {s[p] : p \in 1 .. Len(s)}

\* ------------------------------------------------------------------- state

VARIABLES
    disk,          \* the cache file
    cache,         \* process_deploy's `cache`: the cache in memory
    pc,            \* where the running command stands; "idle": no command runs
    result,        \* at "exit": what the command returns
    cfg,           \* the config file the command was given: [number, hidden]
    tars_pubkey,   \* process_deploy's `tars_pubkey`, 0 before it is known
    item_redeemed, \* process_deploy's `item_redeemed`
    config_lines,  \* the delta handed to the uploader
    st,            \* the uploader's record of each index of the delta
    tries,         \* a worker's count of the retries of the write it is busy with
    interrupted,   \* args.interrupted, the operator's cancellation flag
    stopped,       \* the uploader has seen the flag set
    errors,        \* what upload_config_lines returned
    remote_lines,  \* remote program: the indices whose config line is written
    accounts,      \* remote ledger: how many program accounts were created
    tars_account,  \* remote program: the state of the account the cache names
    funds,         \* initialize_tars's `balance` and `lamports`
    label,         \* the progress label printed last: step `i` of `n`
    cleared,       \* the clearing of the flag ahead of the upload found it set
    tmp_file,      \* the temporary file a persist writes before it renames it
    txs,           \* the transactions the running one-shot command has sent
    asked,         \* what the running one-shot command was given and has found
    calc           \* a computation on its own: its inputs and what it returned

vars == << disk, cache, pc, result, cfg, tars_pubkey, item_redeemed, config_lines,
           st, tries, interrupted, stopped, errors, remote_lines, accounts,
           tars_account, funds, label, cleared, tmp_file, txs, asked, calc >>

\* What one run of a command holds in memory.
run_vars == << cache, cfg, tars_pubkey, item_redeemed, config_lines, st, tries,
               stopped, errors, funds, label, cleared, txs, asked >>

NoConfig == [number |-> 0, hidden |-> FALSE]

NoUpload == [i \in Indices |-> "none"]

NoTries == [i \in Indices |-> 0]

\* initialize_tars has not looked at the payer's balance.
NoFunds == [balance |-> 0, lamports |-> 0]

\* No one-shot command is running: nothing was given to it and nothing found.
NoAsked ==
    [cmd |-> "none", given |-> FALSE, list |-> FALSE, number |-> 0,
     new_authority |-> FALSE, retain_authority |-> FALSE,
     update_authority |-> FALSE, master_edition |-> FALSE, confirm |-> FALSE]

\* No computation is looked at on its own.
NoCalc == [kind |-> "none"]

\* No progress label was printed yet.
NoLabel == [i |-> 0, n |-> 0]

\* The remote program before any account is created for the deployment.
NoAccount ==
    [items_available |-> 0, items_redeemed |-> 0, collection_mint |-> 0,
     authority_moved |-> FALSE, closed |-> FALSE]

\* The memory of a process that has just started.
FreshRun ==
    /\ cache = EmptyCache
    /\ cfg = NoConfig
    /\ tars_pubkey = 0
    /\ item_redeemed = FALSE
    /\ config_lines = << >>
    /\ st = NoUpload
    /\ tries = NoTries
    /\ stopped = FALSE
    /\ errors = << >>
    /\ funds = NoFunds
    /\ label = NoLabel
    /\ cleared = FALSE
    /\ txs = << >>
    /\ asked = NoAsked

\* One cached item carries a bad field (at most one: each is rejected alone).
Defects ==
    { [name |-> "", metadata_link |-> "ok", on_chain |-> FALSE],
      [name |-> "long", metadata_link |-> "ok", on_chain |-> FALSE],
      [name |-> "ok", metadata_link |-> "", on_chain |-> FALSE],
      [name |-> "ok", metadata_link |-> "long", on_chain |-> FALSE] }

InitialCaches ==
    LET fresh == {FreshCache(n, w) : n \in 0 .. MaxItems, w \in BOOLEAN}
    IN  fresh \cup UNION {{upsert(c, k, d) : k \in DOMAIN c.items, d \in Defects} :
                            c \in fresh}

\* A cache file that comes with an address: one that does not parse, or one
\* that names no account (a file edited by hand, or copied from another ledger).
ForeignCaches ==
    {[FreshCache(n, w) EXCEPT !.tars = a] :
        n \in 1 .. MaxItems, w \in BOOLEAN, a \in {InvalidAddress, StaleAddress}}

Init ==
    /\ disk \in InitialCaches \cup ForeignCaches \cup {NoFile}
    /\ pc = "idle"
    /\ result = "none"
    /\ interrupted = FALSE
    /\ remote_lines = {}
    /\ accounts = 0
    /\ tars_account = NoAccount
    /\ tmp_file = NoFile
    /\ calc = NoCalc
    /\ FreshRun

\* ------------------------------------------------------------ process_deploy

\* The command returns `r`.
Finish(r) ==
    /\ pc' = "exit"
    /\ result' = r

\* if num_items != cache_items_sans_collection { return Err(..) }
count_mismatch(num_items, c) == num_items # cache_items_sans_collection(c)

\* A start that lets a cache without items through to the count check.
StartDeployNoEmptyCheck(number, hidden, env) ==
    /\ pc = "idle"
    /\ cache' = load_cache(disk, FALSE).cache
    /\ cfg' = [number |-> number, hidden |-> hidden]
    /\ IF ~load_cache(disk, FALSE).ok
       THEN Finish("CacheFileNotFound")
       ELSE IF item_errors(disk) # {}
       THEN \E e \in item_errors(disk) : Finish(e)
       ELSE IF env = "no_setup"
       THEN Finish("SetupError")
       ELSE IF count_mismatch(number, disk)
       THEN Finish("CountMismatch")
       ELSE IF env = "bad_config"
       THEN Finish("InvalidConfig")
       ELSE pc' = "ensure" /\ result' = "none"
    /\ UNCHANGED << disk, tars_pubkey, item_redeemed, config_lines, st, tries,
                    interrupted, stopped, errors, remote_lines, accounts,
                    tars_account, funds >>
    /\ label' = IF pc' = "ensure"
                THEN [i |-> 0, n |-> total_steps(disk, hidden)]
                ELSE label
    /\ UNCHANGED << cleared, tmp_file, txs, asked, calc >>

\* The start of process_deploy, up to the first remote call: the cache is loaded,
\* every cached item is checked, the client is set up and the config read
\* (`env` says whether that works), and the item count is compared.  `number`
\* and `hidden` are what the config file declares, read or not.
StartDeploy(number, hidden, env) ==
    /\ pc = "idle"
    /\ cache' = load_cache(disk, FALSE).cache
    /\ cfg' = [number |-> number, hidden |-> hidden]
    /\ IF ~load_cache(disk, FALSE).ok
       THEN Finish("CacheFileNotFound")
       ELSE IF cache_is_empty(disk)
       THEN Finish("CacheFileNotFound")
       ELSE IF item_errors(disk) # {}
       THEN \E e \in item_errors(disk) : Finish(e)
       ELSE IF env = "no_setup"
       THEN Finish("SetupError")
       ELSE IF count_mismatch(number, disk)
       THEN Finish("CountMismatch")
       ELSE IF env = "bad_config"
       THEN Finish("InvalidConfig")
       ELSE pc' = "ensure" /\ result' = "none"
    /\ UNCHANGED << disk, tars_pubkey, item_redeemed, config_lines, st, tries,
                    interrupted, stopped, errors, remote_lines, accounts,
                    tars_account, funds >>
    /\ label' = IF pc' = "ensure"
                THEN [i |-> 0, n |-> total_steps(disk, hidden)]
                ELSE label
    /\ UNCHANGED << cleared, tmp_file, txs, asked, calc >>

\* The size of the account's fixed part and of one config line.  Both are
\* declared with the program's layout, outside these sources; the values stand
\* for them.
CONFIG_ARRAY_START == 713

CONFIG_LINE_SIZE == 240

\* A size that counts the config lines in hidden-settings mode as well.
tars_account_size_with_lines(items_available, hidden) ==
    CONFIG_ARRAY_START + 4 + items_available * CONFIG_LINE_SIZE + 8
    + 2 * ((items_available \div 8) + 1)

\* let tars_account_size = if tars_data.hidden_settings.is_some() { .. } else { .. }
tars_account_size(items_available, hidden) ==
    IF hidden
    THEN CONFIG_ARRAY_START
    ELSE CONFIG_ARRAY_START + 4 + items_available * CONFIG_LINE_SIZE + 8
         + 2 * ((items_available \div 8) + 1)

\* get_minimum_balance_for_rent_exemption(size): the ledger's price of an account
\* of that size, two years of rent for its bytes and its 128 bytes of overhead.
minimum_balance_for_rent_exemption(size) == (128 + size) * 6960

\* let lamports = program.rpc().get_minimum_balance_for_rent_exemption(tars_account_size)?;
lamports_needed(items_available, hidden) ==
    minimum_balance_for_rent_exemption(tars_account_size(items_available, hidden))

\* The balances the payer may be found with: short by one lamport, exact, more.
Balances(lamports) == {lamports - 1, lamports, lamports + 1}

\* A refusal that also turns away a balance equal to the cost.
balance_too_low_at_equal(lamports, balance) == lamports >= balance

\* if lamports > balance { return Err(DeployError::BalanceTooLow(..)) }
balance_too_low(lamports, balance) == lamports > balance

\* The program account a deploy has just created for `number` items.
NewAccount(number) == [NoAccount EXCEPT !.items_available = number]

\* A creation that does not look at the cache's address.
CreateTarsAlways(outcome, balance) ==
    /\ pc = "ensure"
    /\ LET lamports == lamports_needed(cfg.number, cfg.hidden)
       IN  IF outcome = "bad_data"
           THEN Finish("InvalidData") /\ UNCHANGED << accounts, tars_pubkey, tars_account, funds >>
           ELSE IF outcome = "rpc_error"
           THEN Finish("RpcError") /\ UNCHANGED << accounts, tars_pubkey, tars_account, funds >>
           ELSE /\ balance \in Balances(lamports)
                /\ funds' = [balance |-> balance, lamports |-> lamports]
                /\ IF balance_too_low(lamports, balance)
                   THEN Finish("BalanceTooLow") /\ UNCHANGED << accounts, tars_pubkey, tars_account >>
                   ELSE IF outcome = "send_failed"
                   THEN Finish("InitializeFailed") /\ UNCHANGED << accounts, tars_pubkey, tars_account >>
                   ELSE /\ accounts < MaxAccounts
                        /\ accounts' = accounts + 1
                        /\ tars_pubkey' = accounts + 1
                        /\ tars_account' = NewAccount(cfg.number)
                        /\ pc' = "created"
                        /\ result' = "none"
    /\ UNCHANGED << disk, cache, cfg, item_redeemed, config_lines, st, tries,
                    interrupted, stopped, errors, remote_lines >>
    /\ label' = [label EXCEPT !.i = 1]
    /\ UNCHANGED << cleared, tmp_file, txs, asked, calc >>

\* The cache holds no program address: the program's data is put together
\* (create_tars_data, the treasury wallet) and initialize_tars asks the ledger
\* for the cost of the account and the payer's balance, and sends the
\* transaction that creates the account.  `outcome` is how the data and the
\* ledger turn out, `balance` what the payer holds.
CreateTars(outcome, balance) ==
    /\ pc = "ensure"
    /\ cache.tars = 0
    /\ LET lamports == lamports_needed(cfg.number, cfg.hidden)
       IN  IF outcome = "bad_data"
           THEN Finish("InvalidData") /\ UNCHANGED << accounts, tars_pubkey, tars_account, funds >>
           ELSE IF outcome = "rpc_error"
           THEN Finish("RpcError") /\ UNCHANGED << accounts, tars_pubkey, tars_account, funds >>
           ELSE /\ balance \in Balances(lamports)
                /\ funds' = [balance |-> balance, lamports |-> lamports]
                /\ IF balance_too_low(lamports, balance)
                   THEN Finish("BalanceTooLow") /\ UNCHANGED << accounts, tars_pubkey, tars_account >>
                   ELSE IF outcome = "send_failed"
                   THEN Finish("InitializeFailed") /\ UNCHANGED << accounts, tars_pubkey, tars_account >>
                   ELSE /\ accounts < MaxAccounts
                        /\ accounts' = accounts + 1
                        /\ tars_pubkey' = accounts + 1
                        /\ tars_account' = NewAccount(cfg.number)
                        /\ pc' = "created"
                        /\ result' = "none"
    /\ UNCHANGED << disk, cache, cfg, item_redeemed, config_lines, st, tries,
                    interrupted, stopped, errors, remote_lines >>
    /\ label' = [label EXCEPT !.i = 1]
    /\ UNCHANGED << cleared, tmp_file, txs, asked, calc >>

\* cache.program = CacheProgram::new_from_cm(&tars_pubkey); cache.sync_file()?;
SyncProgram ==
    /\ pc = "created"
    /\ cache' = [cache EXCEPT !.tars = tars_pubkey, !.collection_mint = 0]
    /\ disk' = cache'
    /\ funds' = NoFunds
    /\ pc' = "write"
    /\ UNCHANGED << result, cfg, tars_pubkey, item_redeemed, config_lines, st, tries,
                    interrupted, stopped, errors, remote_lines, accounts,
                    tars_account >>
    /\ UNCHANGED << label, cleared, tmp_file, txs, asked, calc >>

\* Pubkey::from_str(tars_address) is Ok: the empty string does not parse either.
parses(address) == address \notin {0, InvalidAddress}

\* A ledger that keeps the accounts that were drained.
resolves_drained(address) == address \in 1 .. accounts

\* The ledger holds a program account at the address.
resolves(address) == address \in 1 .. accounts /\ ~tars_account.closed

\* A loading that goes on to the writing step whatever the fetch answers.
LoadTarsUnchecked(fetched) ==
    /\ pc = "ensure"
    /\ cache.tars # 0
    /\ tars_pubkey' = cache.tars
    /\ item_redeemed' = (tars_account.items_redeemed > 0)
    /\ pc' = "write"
    /\ result' = "none"
    /\ UNCHANGED << disk, cache, cfg, config_lines, st, tries,
                    interrupted, stopped, errors, remote_lines, accounts,
                    tars_account, funds >>
    /\ label' = [label EXCEPT !.i = 1]
    /\ UNCHANGED << cleared, tmp_file, txs, asked, calc >>

\* A loading that never learns of the items minted.
LoadTarsUnaware(fetched) ==
    /\ pc = "ensure"
    /\ cache.tars # 0
    /\ IF ~parses(cache.tars)
       THEN Finish("InvalidTarsAddress") /\ UNCHANGED << tars_pubkey, item_redeemed >>
       ELSE /\ tars_pubkey' = cache.tars
            /\ UNCHANGED item_redeemed
            /\ IF fetched /\ resolves(cache.tars)
               THEN pc' = "write" /\ result' = "none"
               ELSE Finish("TarsNotFound")
    /\ UNCHANGED << disk, cache, cfg, config_lines, st, tries,
                    interrupted, stopped, errors, remote_lines, accounts,
                    tars_account, funds >>
    /\ label' = [label EXCEPT !.i = 1]
    /\ UNCHANGED << cleared, tmp_file, txs, asked, calc >>

\* The cache holds a program address: it is parsed and the program's state is
\* fetched (`fetched` says whether the ledger answers at all).
LoadTars(fetched) ==
    /\ pc = "ensure"
    /\ cache.tars # 0
    /\ IF ~parses(cache.tars)
       THEN Finish("InvalidTarsAddress") /\ UNCHANGED << tars_pubkey, item_redeemed >>
       ELSE /\ tars_pubkey' = cache.tars
            /\ IF fetched /\ resolves(cache.tars)
               THEN /\ item_redeemed' = (tars_account.items_redeemed > 0)
                    /\ pc' = "write"
                    /\ result' = "none"
               ELSE Finish("TarsNotFound") /\ UNCHANGED item_redeemed
    /\ UNCHANGED << disk, cache, cfg, config_lines, st, tries,
                    interrupted, stopped, errors, remote_lines, accounts,
                    tars_account, funds >>
    /\ label' = [label EXCEPT !.i = 1]
    /\ UNCHANGED << cleared, tmp_file, txs, asked, calc >>

\* The test of the delta inverted.
all_deployed_inverted(delta) == delta # << >>

\* A test that never finds the delta empty: the uploader is started every time.
all_deployed_never(delta) == FALSE

\* if config_lines.is_empty() { println!("All config lines deployed.") }
all_deployed(delta) == delta = << >>

\* A writing step that marks the first entry of the delta as on chain in the
\* cache in memory while it queues it.
WriteItemsMarking ==
    /\ pc = "write"
    /\ IF cfg.hidden
       THEN /\ pc' = "collection"
            /\ UNCHANGED << result, config_lines, st, interrupted, cache >>
       ELSE LET g == generate_config_lines(cfg.number, cache)
            IN  IF ~g.ok
                THEN Finish(g.err) /\ UNCHANGED << config_lines, st, interrupted, cache >>
                ELSE IF all_deployed(g.lines)
                THEN /\ pc' = "collection"
                     /\ UNCHANGED << result, config_lines, st, interrupted, cache >>
                ELSE /\ interrupted' = FALSE
                     /\ config_lines' = g.lines
                     /\ st' = [i \in Indices |->
                                  IF i \in Range(g.lines) THEN "pending" ELSE "none"]
                     /\ cache' = upsert(cache, g.lines[1],
                                        [NewItem EXCEPT !.on_chain = TRUE])
                     /\ pc' = "uploading"
                     /\ UNCHANGED result
    /\ UNCHANGED << disk, cfg, tars_pubkey, item_redeemed, tries, stopped,
                    errors, remote_lines, accounts,
                    tars_account, funds >>
    /\ label' = IF cfg.hidden THEN label ELSE [label EXCEPT !.i = 2]
    /\ cleared' = IF pc' = "uploading" THEN interrupted ELSE cleared
    /\ UNCHANGED << tmp_file, txs, asked, calc >>

\* A writing step that does not look at the hidden settings.
WriteItemsAlways ==
    /\ pc = "write"
    /\ LET g == generate_config_lines(cfg.number, cache)
       IN  IF ~g.ok
           THEN Finish(g.err) /\ UNCHANGED << config_lines, st, interrupted >>
           ELSE IF all_deployed(g.lines)
           THEN /\ pc' = "collection"
                /\ UNCHANGED << result, config_lines, st, interrupted >>
           ELSE /\ interrupted' = FALSE
                /\ config_lines' = g.lines
                /\ st' = [i \in Indices |->
                             IF i \in Range(g.lines) THEN "pending" ELSE "none"]
                /\ pc' = "uploading"
                /\ UNCHANGED result
    /\ UNCHANGED << disk, cache, cfg, tars_pubkey, item_redeemed, tries, stopped,
                    errors, remote_lines, accounts, tars_account, funds >>
    /\ label' = [label EXCEPT !.i = 2]
    /\ cleared' = IF pc' = "uploading" THEN interrupted ELSE cleared
    /\ UNCHANGED << tmp_file, txs, asked, calc >>

\* A writing step that starts the upload with the flag as it finds it.
WriteItemsStale ==
    /\ pc = "write"
    /\ IF cfg.hidden
       THEN /\ pc' = "collection"
            /\ UNCHANGED << result, config_lines, st >>
       ELSE LET g == generate_config_lines(cfg.number, cache)
            IN  IF ~g.ok
                THEN Finish(g.err) /\ UNCHANGED << config_lines, st >>
                ELSE IF all_deployed(g.lines)
                THEN /\ pc' = "collection"
                     /\ UNCHANGED << result, config_lines, st >>
                ELSE /\ config_lines' = g.lines
                     /\ st' = [i \in Indices |->
                                  IF i \in Range(g.lines) THEN "pending" ELSE "none"]
                     /\ pc' = "uploading"
                     /\ UNCHANGED result
    /\ UNCHANGED << disk, cache, cfg, tars_pubkey, item_redeemed, tries, stopped,
                    errors, remote_lines, accounts, tars_account, funds,
                    interrupted, cleared, tmp_file, txs, asked, calc >>
    /\ label' = IF cfg.hidden THEN label ELSE [label EXCEPT !.i = 2]

\* The writing step up to the call of the uploader: the delta is generated and,
\* unless it is empty, the interrupt flag is cleared and the upload starts.
WriteItems ==
    /\ pc = "write"
    /\ IF cfg.hidden
       THEN /\ pc' = "collection"
            /\ UNCHANGED << result, config_lines, st, interrupted >>
       ELSE LET g == generate_config_lines(cfg.number, cache)
            IN  IF ~g.ok
                THEN Finish(g.err) /\ UNCHANGED << config_lines, st, interrupted >>
                ELSE IF all_deployed(g.lines)
                THEN /\ pc' = "collection"
                     /\ UNCHANGED << result, config_lines, st, interrupted >>
                ELSE /\ interrupted' = FALSE
                     /\ config_lines' = g.lines
                     /\ st' = [i \in Indices |->
                                  IF i \in Range(g.lines) THEN "pending" ELSE "none"]
                     /\ pc' = "uploading"
                     /\ UNCHANGED result
    /\ UNCHANGED << disk, cache, cfg, tars_pubkey, item_redeemed, tries, stopped,
                    errors, remote_lines, accounts,
                    tars_account, funds >>
    /\ label' = IF cfg.hidden THEN label ELSE [label EXCEPT !.i = 2]
    /\ cleared' = IF pc' = "uploading" THEN interrupted ELSE cleared
    /\ UNCHANGED << tmp_file, txs, asked, calc >>

\* ---------------------------------------------------------- concurrent uploader

\* The indices a worker is busy with: submitted, or confirmed and being recorded
\* (waiting for the cache's lock, or holding it).
Busy == {i \in Indices : st[i] \in {"inflight", "acked", "locked", "marked", "written"}}

Pending == {i \in Indices : st[i] = "pending"}

\* The indices this upload has recorded as confirmed.
Confirmed == {i \in Indices : st[i] = "confirmed"}

\* The indices this upload has recorded a permanent error for.
Failed == {i \in Indices : st[i] \in {"rejected", "exhausted"}}

\* The next entry of the delta to dispatch: the pending one of least index.
NextPending == CHOOSE i \in Pending : \A j \in Pending : i <= j

\* A marking that rebuilds the cache's flags from this one confirmation: every
\* other item is written back as not on chain.
mark_alone(c, i) ==
    [c EXCEPT !.items = [x \in (DOMAIN c.items) \cup {i} |->
                            IF x = i THEN [NewItem EXCEPT !.on_chain = TRUE]
                            ELSE [c.items[x] EXCEPT !.on_chain = FALSE]]]

\* Marking an item confirmed in the cache in memory.
mark_confirmed(c, i) ==
    upsert(c, i, IF HasItem(c, i)
                 THEN [c.items[i] EXCEPT !.on_chain = TRUE]
                 ELSE [NewItem EXCEPT !.on_chain = TRUE])

\* A dispatch that never looks at the cancel flag.
DispatchUnchecked ==
    /\ pc = "uploading"
    /\ Pending # {}
    /\ Cardinality(Busy) < MaxWorkers
    /\ st' = [st EXCEPT ![NextPending] = "inflight"]
    /\ UNCHANGED << disk, cache, pc, result, cfg, tars_pubkey, item_redeemed,
                    config_lines, tries, interrupted, stopped, errors, remote_lines,
                    accounts,
                    tars_account, funds >>
    /\ UNCHANGED << label, cleared, tmp_file, txs, asked, calc >>

\* A worker is free and an entry is left: the worker looks at the cancel flag
\* and, unless it is set, submits the entry's write.
Dispatch ==
    /\ pc = "uploading"
    /\ ~stopped
    /\ Pending # {}
    /\ Cardinality(Busy) < MaxWorkers
    /\ IF interrupted
       THEN stopped' = TRUE /\ UNCHANGED st
       ELSE st' = [st EXCEPT ![NextPending] = "inflight"] /\ UNCHANGED stopped
    /\ UNCHANGED << disk, cache, pc, result, cfg, tars_pubkey, item_redeemed,
                    config_lines, tries, interrupted, errors, remote_lines, accounts,
                    tars_account, funds >>
    /\ UNCHANGED << label, cleared, tmp_file, txs, asked, calc >>

\* write_item answers Confirmed: the remote program holds the line.
WriteConfirmed(i) ==
    /\ pc = "uploading"
    /\ st[i] = "inflight"
    /\ remote_lines' = remote_lines \cup {i}
    /\ st' = [st EXCEPT ![i] = "acked"]
    /\ tries' = [tries EXCEPT ![i] = 0]
    /\ UNCHANGED << disk, cache, pc, result, cfg, tars_pubkey, item_redeemed,
                    config_lines, interrupted, stopped, errors, accounts,
                    tars_account, funds >>
    /\ UNCHANGED << label, cleared, tmp_file, txs, asked, calc >>

\* A worker that gives the write up at the first TransientError.
WriteTransientOnce(i) ==
    /\ pc = "uploading"
    /\ st[i] = "inflight"
    /\ st' = [st EXCEPT ![i] = "exhausted"]
    /\ tries' = [tries EXCEPT ![i] = 0]
    /\ UNCHANGED << disk, cache, pc, result, cfg, tars_pubkey, item_redeemed,
                    config_lines, interrupted, stopped, errors, remote_lines, accounts,
                    tars_account, funds, label, cleared, tmp_file, txs, asked, calc >>

\* write_item answers TransientError: retried, up to the bound, and then a
\* permanent error of the index.
WriteTransient(i) ==
    /\ pc = "uploading"
    /\ st[i] = "inflight"
    /\ IF tries[i] < MaxRetries
       THEN tries' = [tries EXCEPT ![i] = tries[i] + 1] /\ UNCHANGED st
       ELSE st' = [st EXCEPT ![i] = "exhausted"] /\ tries' = [tries EXCEPT ![i] = 0]
    /\ UNCHANGED << disk, cache, pc, result, cfg, tars_pubkey, item_redeemed,
                    config_lines, interrupted, stopped, errors, remote_lines, accounts,
                    tars_account, funds >>
    /\ UNCHANGED << label, cleared, tmp_file, txs, asked, calc >>

\* write_item answers RejectedError: a permanent error of the index at once.
WriteRejected(i) ==
    /\ pc = "uploading"
    /\ st[i] = "inflight"
    /\ st' = [st EXCEPT ![i] = "rejected"]
    /\ tries' = [tries EXCEPT ![i] = 0]
    /\ UNCHANGED << disk, cache, pc, result, cfg, tars_pubkey, item_redeemed,
                    config_lines, interrupted, stopped, errors, remote_lines, accounts,
                    tars_account, funds >>
    /\ UNCHANGED << label, cleared, tmp_file, txs, asked, calc >>

\* A recording that marks the item in memory and leaves the file to the end of
\* the upload.
PersistInMemory(i) ==
    /\ pc = "uploading"
    /\ st[i] = "acked"
    /\ cache' = mark_confirmed(cache, i)
    /\ st' = [st EXCEPT ![i] = "confirmed"]
    /\ UNCHANGED << disk, pc, result, cfg, tars_pubkey, item_redeemed, config_lines,
                    tries, interrupted, stopped, errors, remote_lines, accounts,
                    tars_account, funds >>
    /\ UNCHANGED << label, cleared, tmp_file, txs, asked, calc >>

\* Under the cache's lock: the confirmed item is marked and the cache persisted.
Persist(i) ==
    /\ pc = "uploading"
    /\ st[i] = "acked"
    /\ cache' = mark_confirmed(cache, i)
    /\ disk' = cache'
    /\ st' = [st EXCEPT ![i] = "confirmed"]
    /\ UNCHANGED << pc, result, cfg, tars_pubkey, item_redeemed, config_lines, tries,
                    interrupted, stopped, errors, remote_lines, accounts,
                    tars_account, funds >>
    /\ UNCHANGED << label, cleared, tmp_file, txs, asked, calc >>

\* The (index, error) pairs of the indices in `is`, in index order.
RECURSIVE error_list(_)
error_list(is) ==
    IF is = {} THEN << >>
    ELSE LET i == CHOOSE x \in is : \A y \in is : x <= y
         IN  << [indices |-> {i}, msg |-> st[i]] >> \o error_list(is \ {i})

\* The distinguished entry of an upload that stopped at the cancel flag.
InterruptedMarker == [indices |-> {}, msg |-> "Interrupted"]

\* What the upload returns: the errors collected, and the Interrupted marker
\* when the upload stopped at the cancel flag.
upload_errors ==
    error_list(Failed) \o (IF stopped THEN << InterruptedMarker >> ELSE << >>)

\* An upload that gives up the batch at the first permanent error.
upload_over_at_error == Busy = {} /\ (stopped \/ Pending = {} \/ Failed # {})

\* An upload that returns as soon as it has seen the cancel flag, whatever is
\* still in flight.
upload_over_at_stop == stopped \/ (Busy = {} /\ Pending = {})

\* The upload is over: no write is in flight and none is left to dispatch, or
\* the upload has stopped.
upload_over == Busy = {} /\ (stopped \/ Pending = {})

\* let mut unique = HashSet::new(); for err in errors { unique.insert(err.to_string()); }
unique_messages(errs) == {errs[p].msg : p \in 1 .. Len(errs)}

\* for u in unique { message.push_str("\n=> "); message.push_str(&u); }: one
\* line for each element of the set, in the order the set yields them.
RECURSIVE message_lines(_)
message_lines(msgs) ==
    IF msgs = {} THEN << >>
    ELSE LET u == CHOOSE x \in msgs : TRUE
         IN  << u >> \o message_lines(msgs \ {u})

\* A message that counts the distinct messages and lists every error.
failure_message_swapped(errs) ==
    [count |-> Cardinality(unique_messages(errs)),
     causes |-> [p \in 1 .. Len(errs) |-> errs[p].msg]]

\* The message of DeployError::AddConfigLineFailed: "Failed to deploy all config
\* lines, {errors.len()} error(s) occurred:" and the lines that follow it.
failure_message(errs) ==
    [count |-> Len(errs), causes |-> message_lines(unique_messages(errs))]

\* A return that goes on to the collection whatever the upload reports.
UploadReturnContinue ==
    /\ pc = "uploading"
    /\ upload_over
    /\ errors' = upload_errors
    /\ disk' = cache
    /\ pc' = "collection"
    /\ UNCHANGED << result, cache, cfg, tars_pubkey, item_redeemed, config_lines, st,
                    tries, interrupted, stopped, remote_lines, accounts,
                    tars_account, funds >>
    /\ UNCHANGED << label, cleared, tmp_file, txs, asked, calc >>

\* A return after which process_deploy marks every entry of the delta in the
\* cache itself.
UploadReturnFolding ==
    /\ pc = "uploading"
    /\ upload_over
    /\ errors' = upload_errors
    /\ cache' = [cache EXCEPT !.items = [k \in DOMAIN cache.items |->
                    IF k \in Range(config_lines)
                    THEN [cache.items[k] EXCEPT !.on_chain = TRUE]
                    ELSE cache.items[k]]]
    /\ disk' = cache'
    /\ IF errors' # << >>
       THEN Finish("AddConfigLineFailed")
       ELSE pc' = "collection" /\ UNCHANGED result
    /\ UNCHANGED << cfg, tars_pubkey, item_redeemed, config_lines, st, tries,
                    interrupted, stopped, remote_lines, accounts,
                    tars_account, funds, label, cleared, tmp_file, txs, asked, calc >>

\* The upload returns, the cache being persisted once more on the way out, and
\* process_deploy turns a non-empty error list into AddConfigLineFailed.
UploadReturn ==
    /\ pc = "uploading"
    /\ upload_over
    /\ errors' = upload_errors
    /\ disk' = cache
    /\ IF errors' # << >>
       THEN Finish("AddConfigLineFailed")
       ELSE pc' = "collection" /\ UNCHANGED result
    /\ UNCHANGED << cache, cfg, tars_pubkey, item_redeemed, config_lines, st, tries,
                    interrupted, stopped, remote_lines, accounts,
                    tars_account, funds >>
    /\ UNCHANGED << label, cleared, tmp_file, txs, asked, calc >>

\* ----------------------------------------------- process_deploy: the collection

\* The mint a deploy creates for its collection, and the mint an operator
\* hands to set-collection.
DeployedMint == 1

GivenMint == 2

\* create_and_set_collection succeeded: the program holds the new mint, the
\* collection item is marked and the mint recorded, and the cache persisted.
collection_set(c) ==
    [upsert(c, COLLECTION, [c.items[COLLECTION] EXCEPT !.on_chain = TRUE])
        EXCEPT !.collection_mint = DeployedMint]

\* A collection step that does not look at the collection item's flag.
CollectionAgain(outcome) ==
    /\ pc = "collection"
    /\ IF HasItem(cache, COLLECTION) /\ ~item_redeemed
       THEN IF outcome = "ok"
            THEN /\ cache' = collection_set(cache)
                 /\ disk' = cache'
                 /\ tars_account' = [tars_account EXCEPT !.collection_mint = DeployedMint]
                 /\ Finish("ok")
            ELSE Finish("CollectionFailed") /\ UNCHANGED << disk, cache, tars_account >>
       ELSE Finish("ok") /\ UNCHANGED << disk, cache, tars_account >>
    /\ UNCHANGED << cfg, tars_pubkey, item_redeemed, config_lines, st, tries,
                    interrupted, stopped, errors, remote_lines, accounts, funds >>
    /\ label' = IF HasItem(cache, COLLECTION) THEN [label EXCEPT !.i = 3] ELSE label
    /\ UNCHANGED << cleared, tmp_file, txs, asked, calc >>

\* The last step of process_deploy: if the cache has the collection item, no
\* item was found minted and the item is not on chain yet, the collection is
\* created and set (`outcome` is what create_and_set_collection returns);
\* process_deploy returns Ok(()) in every other case.
Collection(outcome) ==
    /\ pc = "collection"
    /\ IF HasItem(cache, COLLECTION) /\ ~item_redeemed
          /\ ~cache.items[COLLECTION].on_chain
       THEN IF outcome = "ok"
            THEN /\ cache' = collection_set(cache)
                 /\ disk' = cache'
                 /\ tars_account' = [tars_account EXCEPT !.collection_mint = DeployedMint]
                 /\ Finish("ok")
            ELSE Finish("CollectionFailed") /\ UNCHANGED << disk, cache, tars_account >>
       ELSE Finish("ok") /\ UNCHANGED << disk, cache, tars_account >>
    /\ UNCHANGED << cfg, tars_pubkey, item_redeemed, config_lines, st, tries,
                    interrupted, stopped, errors, remote_lines, accounts, funds >>
    /\ label' = IF HasItem(cache, COLLECTION) THEN [label EXCEPT !.i = 3] ELSE label
    /\ UNCHANGED << cleared, tmp_file, txs, asked, calc >>

\* ------------------------------------------------------------- the process

\* The memory of the next process: nothing of this one is kept.
Forget ==
    /\ cache' = EmptyCache
    /\ cfg' = NoConfig
    /\ tars_pubkey' = 0
    /\ item_redeemed' = FALSE
    /\ config_lines' = << >>
    /\ st' = NoUpload
    /\ tries' = NoTries
    /\ stopped' = FALSE
    /\ errors' = << >>
    /\ funds' = NoFunds
    /\ interrupted' = FALSE
    /\ label' = NoLabel
    /\ cleared' = FALSE
    /\ txs' = << >>
    /\ asked' = NoAsked

\* The command has returned and its process ends.
Exit ==
    /\ pc = "exit"
    /\ pc' = "idle"
    /\ result' = "none"
    /\ Forget
    /\ UNCHANGED << disk, remote_lines, accounts, tars_account >>
    /\ UNCHANGED << tmp_file, calc >>

Running == pc \notin {"idle", "exit"}

\* The process dies (a kill, a power cut) wherever it stands.
Crash ==
    /\ Running
    /\ pc' = "idle"
    /\ result' = "none"
    /\ Forget
    /\ UNCHANGED << disk, remote_lines, accounts, tars_account >>
    /\ UNCHANGED << tmp_file, calc >>

\* The operator interrupts the command while the upload runs: the handler sets
\* the flag.
Cancel ==
    /\ pc = "uploading"
    /\ ~interrupted
    /\ interrupted' = TRUE
    /\ UNCHANGED << disk, cache, pc, result, cfg, tars_pubkey, item_redeemed,
                    config_lines, st, tries, stopped, errors, remote_lines, accounts,
                    tars_account, funds >>
    /\ UNCHANGED << label, cleared, tmp_file, txs, asked, calc >>

\* The operator interrupts the command at another time than during the upload.
CancelAhead ==
    /\ Running
    /\ pc # "uploading"
    /\ ~interrupted
    /\ interrupted' = TRUE
    /\ UNCHANGED << disk, cache, pc, result, cfg, tars_pubkey, item_redeemed,
                    config_lines, st, tries, stopped, errors, remote_lines, accounts,
                    tars_account, funds, label, cleared, tmp_file, txs, asked, calc >>

\* ------------------------------------------------------------ specification

Envs == {"ok", "no_setup", "bad_config"}

CreateOutcomes == {"ok", "bad_data", "rpc_error", "send_failed"}

\* Every balance CreateTars may be given, whatever the config.
AllBalances ==
    UNION {Balances(lamports_needed(n, h)) : n \in 0 .. MaxItems, h \in BOOLEAN}

Next ==
    \/ \E number \in 0 .. MaxItems, hidden \in BOOLEAN, env \in Envs :
          StartDeploy(number, hidden, env)
    \/ \E outcome \in CreateOutcomes, balance \in AllBalances : CreateTars(outcome, balance)
    \/ SyncProgram
    \/ \E fetched \in BOOLEAN : LoadTars(fetched)
    \/ WriteItems
    \/ Dispatch
    \/ \E i \in Indices : WriteConfirmed(i)
    \/ \E i \in Indices : WriteTransient(i)
    \/ \E i \in Indices : WriteRejected(i)
    \/ \E i \in Indices : Persist(i)
    \/ UploadReturn
    \/ \E outcome \in {"ok", "failed"} : Collection(outcome)
    \/ Exit
    \/ Crash
    \/ Cancel

Spec == Init /\ [][Next]_vars

\* ------------------------------------------- the deploy at a finer grain

\* A persist that writes into the cache file itself: the file is cut short
\* until the write is complete.
persist_in_place(c) ==
    /\ tmp_file' = c
    /\ disk' = [c EXCEPT !.items = << >>]

\* persist, first half: the whole cache is written to a temporary file.
persist_write(c) ==
    /\ tmp_file' = c
    /\ disk' = disk

\* persist, second half: the temporary file is renamed to the cache file.
persist_rename ==
    /\ disk' = tmp_file
    /\ tmp_file' = NoFile

\* The checkpoint after the creation, up to the temporary file.
SyncProgramWrite ==
    /\ pc = "created"
    /\ cache' = [cache EXCEPT !.tars = tars_pubkey, !.collection_mint = 0]
    /\ persist_write(cache')
    /\ pc' = "syncing"
    /\ UNCHANGED << result, cfg, tars_pubkey, item_redeemed, config_lines, st, tries,
                    interrupted, stopped, errors, remote_lines, accounts,
                    tars_account, funds, label, cleared, txs, asked, calc >>

\* The checkpoint after the creation is complete.
SyncProgramRename ==
    /\ pc = "syncing"
    /\ persist_rename
    /\ funds' = NoFunds
    /\ pc' = "write"
    /\ UNCHANGED << cache, result, cfg, tars_pubkey, item_redeemed, config_lines, st,
                    tries, interrupted, stopped, errors, remote_lines, accounts,
                    tars_account, label, cleared, txs, asked, calc >>

\* The indices whose worker holds the cache's lock.
Holders == {i \in Indices : st[i] \in {"locked", "marked", "written"}}

\* A worker that enters the critical section without the lock.
AcquireUnlocked(i) ==
    /\ pc = "uploading"
    /\ st[i] = "acked"
    /\ st' = [st EXCEPT ![i] = "locked"]
    /\ UNCHANGED << disk, cache, pc, result, cfg, tars_pubkey, item_redeemed,
                    config_lines, tries, interrupted, stopped, errors, remote_lines,
                    accounts, tars_account, funds, label, cleared, tmp_file, txs, asked, calc >>

\* The worker whose write was confirmed takes the cache's lock, once it is free.
Acquire(i) ==
    /\ pc = "uploading"
    /\ st[i] = "acked"
    /\ Holders = {}
    /\ st' = [st EXCEPT ![i] = "locked"]
    /\ UNCHANGED << disk, cache, pc, result, cfg, tars_pubkey, item_redeemed,
                    config_lines, tries, interrupted, stopped, errors, remote_lines,
                    accounts, tars_account, funds, label, cleared, tmp_file, txs, asked, calc >>

\* Under the lock: the item is marked confirmed in the cache in memory.
Mark(i) ==
    /\ pc = "uploading"
    /\ st[i] = "locked"
    /\ cache' = mark_confirmed(cache, i)
    /\ st' = [st EXCEPT ![i] = "marked"]
    /\ UNCHANGED << disk, pc, result, cfg, tars_pubkey, item_redeemed, config_lines,
                    tries, interrupted, stopped, errors, remote_lines, accounts,
                    tars_account, funds, label, cleared, tmp_file, txs, asked, calc >>

\* Under the lock: the cache is written out.
WriteCache(i) ==
    /\ pc = "uploading"
    /\ st[i] = "marked"
    /\ persist_write(cache)
    /\ st' = [st EXCEPT ![i] = "written"]
    /\ UNCHANGED << cache, pc, result, cfg, tars_pubkey, item_redeemed, config_lines,
                    tries, interrupted, stopped, errors, remote_lines, accounts,
                    tars_account, funds, label, cleared, txs, asked, calc >>

\* The write of the cache is complete and the worker gives the lock back.
Release(i) ==
    /\ pc = "uploading"
    /\ st[i] = "written"
    /\ persist_rename
    /\ st' = [st EXCEPT ![i] = "confirmed"]
    /\ UNCHANGED << cache, pc, result, cfg, tars_pubkey, item_redeemed, config_lines,
                    tries, interrupted, stopped, errors, remote_lines, accounts,
                    tars_account, funds, label, cleared, txs, asked, calc >>

\* One or two items, deployed with the checkpoint and each worker's recording
\* taken apart into their steps, and interrupted at any time.
StepInit ==
    /\ disk \in {FreshCache(n, w) : n \in 1 .. 2, w \in BOOLEAN}
    /\ pc = "idle"
    /\ result = "none"
    /\ interrupted = FALSE
    /\ remote_lines = {}
    /\ accounts = 0
    /\ tars_account = NoAccount
    /\ tmp_file = NoFile
    /\ calc = NoCalc
    /\ FreshRun

StepNext ==
    \/ \E number \in 0 .. MaxItems, hidden \in BOOLEAN, env \in Envs :
          StartDeploy(number, hidden, env)
    \/ \E outcome \in CreateOutcomes, balance \in AllBalances : CreateTars(outcome, balance)
    \/ SyncProgramWrite
    \/ SyncProgramRename
    \/ \E fetched \in BOOLEAN : LoadTars(fetched)
    \/ WriteItems
    \/ Dispatch
    \/ \E i \in Indices : WriteConfirmed(i)
    \/ \E i \in Indices : WriteTransient(i)
    \/ \E i \in Indices : WriteRejected(i)
    \/ \E i \in Indices : Acquire(i)
    \/ \E i \in Indices : Mark(i)
    \/ \E i \in Indices : WriteCache(i)
    \/ \E i \in Indices : Release(i)
    \/ UploadReturn
    \/ \E outcome \in {"ok", "failed"} : Collection(outcome)
    \/ Exit
    \/ Crash
    \/ Cancel
    \/ CancelAhead

StepSpec == StepInit /\ [][StepNext]_vars

\* ------------------------------------------------------ the other commands

\* The address a command works on: the one given with --tars (here the account
\* created last), or else the one of the cache file.
tars_id(given) == IF given THEN accounts ELSE disk.tars

\* What the command has loaded: Cache::new() with --tars, else the cache file.
loaded_cache(given) == IF given THEN EmptyCache ELSE disk

\* The command can work on the program: the address parses, the program's
\* state is fetched and the payer is its authority.
program_ready(given) ==
    /\ parses(tars_id(given))
    /\ resolves(tars_id(given))
    /\ ~tars_account.authority_moved

\* What a command leaves unchanged in any case.
CommandFrame ==
    UNCHANGED << cfg, tars_pubkey, item_redeemed, config_lines, st, tries,
                 interrupted, stopped, errors, remote_lines, accounts, funds,
                 label, cleared, tmp_file, calc >>

\* What set-collection finds about the program and the given mint: whether the
\* program retains authority, whether the payer is the update authority of the
\* collection's metadata, whether the mint is a unique master edition.
CollectionsFound ==
    [retain_authority : BOOLEAN, update_authority : BOOLEAN, master_edition : BOOLEAN]

\* What a set-collection was given and has found.
SetCollectionEnv(given, found) ==
    [NoAsked EXCEPT !.cmd = "set_collection", !.given = given,
                  !.retain_authority = found.retain_authority,
                  !.update_authority = found.update_authority,
                  !.master_edition = found.master_edition]

\* set_collection without its look at the number of items redeemed.
set_collection_after_mint(found, items_redeemed) ==
    /\ found.retain_authority
    /\ found.update_authority
    /\ found.master_edition

\* set_collection: the checks that come before the transaction is built.
set_collection_allowed(found, items_redeemed) ==
    /\ found.retain_authority
    /\ found.update_authority
    /\ found.master_edition
    /\ items_redeemed = 0

\* remove_collection: the checks that come before the transaction is built.
remove_collection_allowed(update_authority, items_redeemed) ==
    /\ update_authority
    /\ items_redeemed = 0

\* A set-collection that updates the cache file it has loaded before it knows
\* how its checks and its transaction turn out.
SetCollectionEager(given, found, sends) ==
    /\ pc = "idle"
    /\ CommandFrame
    /\ asked' = SetCollectionEnv(given, found)
    /\ cache' = IF given THEN EmptyCache
                ELSE [remove(disk, COLLECTION) EXCEPT !.collection_mint = GivenMint]
    /\ disk' = IF given THEN disk ELSE cache'
    /\ IF program_ready(given)
          /\ set_collection_allowed(found, tars_account.items_redeemed)
       THEN /\ txs' = << [tx |-> "SetCollection", account |-> tars_id(given), ok |-> sends] >>
            /\ IF sends
               THEN /\ tars_account' = [tars_account EXCEPT !.collection_mint = GivenMint]
                    /\ Finish("SetCollectionOk")
               ELSE /\ Finish("SetCollectionFailed")
                    /\ UNCHANGED tars_account
       ELSE /\ Finish("SetCollectionFailed")
            /\ UNCHANGED << tars_account, txs >>

\* A set-collection that writes the mint to the cache file and leaves the
\* collection item in it.
SetCollectionKeepingItem(given, found, sends) ==
    /\ pc = "idle"
    /\ CommandFrame
    /\ asked' = SetCollectionEnv(given, found)
    /\ IF program_ready(given)
          /\ set_collection_allowed(found, tars_account.items_redeemed)
       THEN /\ txs' = << [tx |-> "SetCollection", account |-> tars_id(given), ok |-> sends] >>
            /\ IF sends
               THEN /\ tars_account' = [tars_account EXCEPT !.collection_mint = GivenMint]
                    /\ cache' = IF given THEN EmptyCache
                                ELSE [disk EXCEPT !.collection_mint = GivenMint]
                    /\ disk' = IF given THEN disk ELSE cache'
                    /\ Finish("SetCollectionOk")
               ELSE /\ cache' = loaded_cache(given)
                    /\ Finish("SetCollectionFailed")
                    /\ UNCHANGED << disk, tars_account >>
       ELSE /\ cache' = loaded_cache(given)
            /\ Finish("SetCollectionFailed")
            /\ UNCHANGED << disk, tars_account, txs >>

\* process_set_collection: the given mint is set as the program's collection
\* and, unless the program was named with --tars, the cache file updated.
\* `found` is what the command finds about the program and the mint, `sends`
\* whether its transaction goes through.
SetCollection(given, found, sends) ==
    /\ pc = "idle"
    /\ CommandFrame
    /\ asked' = SetCollectionEnv(given, found)
    /\ IF program_ready(given)
          /\ set_collection_allowed(found, tars_account.items_redeemed)
       THEN /\ txs' = << [tx |-> "SetCollection", account |-> tars_id(given), ok |-> sends] >>
            /\ IF sends
               THEN /\ tars_account' = [tars_account EXCEPT !.collection_mint = GivenMint]
                    /\ cache' = IF given THEN EmptyCache
                                ELSE [remove(disk, COLLECTION) EXCEPT
                                         !.collection_mint = GivenMint]
                    /\ disk' = IF given THEN disk ELSE cache'
                    /\ Finish("SetCollectionOk")
               ELSE /\ cache' = loaded_cache(given)
                    /\ Finish("SetCollectionFailed")
                    /\ UNCHANGED << disk, tars_account >>
       ELSE /\ cache' = loaded_cache(given)
            /\ Finish("SetCollectionFailed")
            /\ UNCHANGED << disk, tars_account, txs >>

\* process_remove_collection: the program's collection is removed and, unless
\* the program was named with --tars, the cache file updated.
\* `update_authority` is whether the payer is the update authority of the
\* collection's metadata, `sends` whether the transaction goes through.
RemoveCollection(given, update_authority, sends) ==
    /\ pc = "idle"
    /\ CommandFrame
    /\ asked' = [NoAsked EXCEPT !.cmd = "remove_collection", !.given = given,
                            !.update_authority = update_authority]
    /\ IF /\ program_ready(given)
          /\ tars_account.collection_mint # 0
          /\ remove_collection_allowed(update_authority, tars_account.items_redeemed)
       THEN /\ txs' = << [tx |-> "RemoveCollection", account |-> tars_id(given), ok |-> sends] >>
            /\ IF sends
               THEN /\ tars_account' = [tars_account EXCEPT !.collection_mint = 0]
                    /\ cache' = IF given THEN EmptyCache
                                ELSE [remove(disk, COLLECTION) EXCEPT
                                         !.collection_mint = 0]
                    /\ disk' = IF given THEN disk ELSE cache'
                    /\ Finish("RemoveCollectionOk")
               ELSE /\ cache' = loaded_cache(given)
                    /\ Finish("RemoveCollectionFailed")
                    /\ UNCHANGED << disk, tars_account >>
       ELSE /\ cache' = loaded_cache(given)
            /\ Finish("RemoveCollectionFailed")
            /\ UNCHANGED << disk, tars_account, txs >>

\* A mint that goes on after a transaction has failed: all `number` are sent.
mint_transactions_all(account, number, minted) ==
    [i \in 1 .. number |-> [tx |-> "MintNft", account |-> account, ok |-> i <= minted]]

\* The transactions of a mint of `number` items of which `minted` go through:
\* one for each item minted and one more for the item that fails, if any.
mint_transactions(account, number, minted) ==
    [i \in 1 .. (IF minted < number THEN minted + 1 ELSE number) |->
        [tx |-> "MintNft", account |-> account, ok |-> i <= minted]]

\* process_mint: `number` items are asked for and minted one at a time, each
\* from the state of the program fetched at the start; `minted` of the
\* transactions go through before one fails, or all do.  `refused` is whether
\* mint's own checks turn the payer away.
Mint(given, number, refused, minted) ==
    /\ pc = "idle"
    /\ CommandFrame
    /\ minted <= number
    /\ asked' = [NoAsked EXCEPT !.cmd = "mint", !.given = given, !.number = number]
    /\ cache' = loaded_cache(given)
    /\ UNCHANGED disk
    /\ LET available == tars_account.items_available - tars_account.items_redeemed
       IN  IF /\ parses(tars_id(given))
              /\ resolves(tars_id(given))
              /\ ~(number > available \/ number = 0)
              /\ ~refused
           THEN /\ tars_account.items_redeemed + minted <= MaxRedeemed
                /\ tars_account' = [tars_account EXCEPT
                                       !.items_redeemed = tars_account.items_redeemed + minted]
                /\ txs' = mint_transactions(tars_id(given), number, minted)
                /\ Finish(IF minted = number THEN "MintOk" ELSE "MintFailed")
           ELSE Finish("MintFailed") /\ UNCHANGED << tars_account, txs >>

\* Where an update stops: nowhere, at the config it was given, at its update
\* transaction, at the new authority it was given, or at the transaction that
\* hands the authority over.
UpdateOutcomes == {"ok", "bad_config", "update_fails", "bad_authority", "authority_fails"}

\* An update that does not look at the program's authority before it sends.
UpdateUnverified(given, outcome, new_authority) ==
    /\ pc = "idle"
    /\ CommandFrame
    /\ asked' = [NoAsked EXCEPT !.cmd = "update", !.given = given,
                            !.new_authority = new_authority]
    /\ cache' = loaded_cache(given)
    /\ UNCHANGED disk
    /\ LET update == [tx |-> "UpdateTars", account |-> tars_id(given),
                      ok |-> outcome # "update_fails"]
           handover == [tx |-> "UpdateAuthority", account |-> tars_id(given),
                        ok |-> outcome # "authority_fails"]
       IN  IF parses(tars_id(given)) /\ resolves(tars_id(given)) /\ outcome # "bad_config"
           THEN IF update.ok /\ new_authority /\ outcome # "bad_authority"
                THEN /\ txs' = << update, handover >>
                     /\ tars_account' = [tars_account EXCEPT
                                            !.authority_moved = handover.ok]
                     /\ Finish(IF handover.ok THEN "UpdateOk" ELSE "UpdateFailed")
                ELSE /\ txs' = << update >>
                     /\ Finish(IF update.ok /\ ~new_authority
                               THEN "UpdateOk" ELSE "UpdateFailed")
                     /\ UNCHANGED tars_account
           ELSE Finish("UpdateFailed") /\ UNCHANGED << tars_account, txs >>

\* process_update: the program's data is rewritten from the config and, if a
\* new authority is given, the authority handed over.
Update(given, outcome, new_authority) ==
    /\ pc = "idle"
    /\ CommandFrame
    /\ asked' = [NoAsked EXCEPT !.cmd = "update", !.given = given,
                            !.new_authority = new_authority]
    /\ cache' = loaded_cache(given)
    /\ UNCHANGED disk
    /\ LET update == [tx |-> "UpdateTars", account |-> tars_id(given),
                      ok |-> outcome # "update_fails"]
           handover == [tx |-> "UpdateAuthority", account |-> tars_id(given),
                        ok |-> outcome # "authority_fails"]
       IN  IF program_ready(given) /\ outcome # "bad_config"
           THEN IF update.ok /\ new_authority /\ outcome # "bad_authority"
                THEN /\ txs' = << update, handover >>
                     /\ tars_account' = [tars_account EXCEPT
                                            !.authority_moved = handover.ok]
                     /\ Finish(IF handover.ok THEN "UpdateOk" ELSE "UpdateFailed")
                ELSE /\ txs' = << update >>
                     /\ Finish(IF update.ok /\ ~new_authority
                               THEN "UpdateOk" ELSE "UpdateFailed")
                     /\ UNCHANGED tars_account
           ELSE Finish("UpdateFailed") /\ UNCHANGED << tars_account, txs >>

\* The members of a set of addresses, in ascending order.
RECURSIVE in_order(_)
in_order(addresses) ==
    IF addresses = {} THEN << >>
    ELSE LET least == CHOOSE a \in addresses : \A b \in addresses : a <= b
         IN  << least >> \o in_order(addresses \ {least})

\* The program accounts withdraw may find for the payer: of the accounts made
\* so far any may be left, but the one made last is found exactly if it is
\* open and still the payer's.
payer_accounts ==
    {found \in SUBSET (1 .. accounts) :
        accounts # 0 =>
            (accounts \in found <=> ~tars_account.closed /\ ~tars_account.authority_moved)}

\* do_withdraw for each address in turn: one transaction each.
drain_transactions(addresses, drained) ==
    [i \in 1 .. Len(addresses) |->
        [tx |-> "WithdrawFunds", account |-> addresses[i],
         ok |-> addresses[i] \in drained]]

\* An address that counts even with --list.
withdraw_tars_listed(list, given) == given

\* let tars = if args.list { None } else { args.tars };
withdraw_tars(list, given) == given /\ ~list

\* process_withdraw: the program account named with --tars is drained and so
\* closed, or else all the program accounts of the payer after the operator has
\* confirmed; with --list they are only shown.  `looked_up` is whether the
\* payer's accounts could be fetched, `found` are the accounts found,
\* `drained` those whose transaction goes through.  The command does not read
\* the cache file.
Withdraw(list, given, confirm, looked_up, found, drained) ==
    /\ pc = "idle"
    /\ CommandFrame
    /\ UNCHANGED << disk, cache >>
    /\ asked' = [NoAsked EXCEPT !.cmd = "withdraw", !.given = given, !.list = list,
                                !.confirm = confirm]
    /\ found \in payer_accounts
    /\ drained \subseteq found
    /\ IF withdraw_tars(list, given)
       THEN IF parses(accounts)
            THEN /\ txs' = drain_transactions(<< accounts >>, drained)
                 /\ tars_account' = [tars_account EXCEPT
                                        !.closed = @ \/ accounts \in drained]
                 /\ Finish(IF accounts \in drained THEN "WithdrawOk" ELSE "WithdrawFailed")
            ELSE Finish("WithdrawFailed") /\ UNCHANGED << tars_account, txs >>
       ELSE IF ~looked_up
            THEN Finish("WithdrawFailed") /\ UNCHANGED << tars_account, txs >>
            ELSE IF found = {} \/ list
            THEN Finish("WithdrawOk") /\ UNCHANGED << tars_account, txs >>
            ELSE IF ~confirm
            THEN Finish("WithdrawFailed") /\ UNCHANGED << tars_account, txs >>
            ELSE /\ txs' = drain_transactions(in_order(found), drained)
                 /\ tars_account' = [tars_account EXCEPT
                                        !.closed = @ \/ accounts \in drained]
                 /\ Finish("WithdrawOk")

\* A deploy and the other commands, run one after the other against caches of
\* one or two items.
OpsInit ==
    /\ disk \in {FreshCache(n, w) : n \in 1 .. 2, w \in BOOLEAN}
    /\ pc = "idle"
    /\ result = "none"
    /\ interrupted = FALSE
    /\ remote_lines = {}
    /\ accounts = 0
    /\ tars_account = NoAccount
    /\ tmp_file = NoFile
    /\ calc = NoCalc
    /\ FreshRun

OpsNext ==
    \/ Next
    \/ \E given \in BOOLEAN, found \in CollectionsFound, sends \in BOOLEAN :
          SetCollection(given, found, sends)
    \/ \E given \in BOOLEAN, update_authority \in BOOLEAN, sends \in BOOLEAN :
          RemoveCollection(given, update_authority, sends)
    \/ \E given \in BOOLEAN, number \in 0 .. 2, refused \in BOOLEAN, minted \in 0 .. 2 :
          Mint(given, number, refused, minted)
    \/ \E given \in BOOLEAN, outcome \in UpdateOutcomes, new_authority \in BOOLEAN :
          Update(given, outcome, new_authority)
    \/ \E list \in BOOLEAN, given \in BOOLEAN, confirm \in BOOLEAN, looked_up \in BOOLEAN,
          found \in SUBSET (1 .. MaxAccounts), drained \in SUBSET (1 .. MaxAccounts) :
          Withdraw(list, given, confirm, looked_up, found, drained)

OpsSpec == OpsInit /\ [][OpsNext]_vars

\* ------------------------------------------- the delta generator on its own

\* Records the generator may meet: fresh, on chain, or with an empty name.
GenItems ==
    {NewItem, [NewItem EXCEPT !.on_chain = TRUE], [NewItem EXCEPT !.name = ""]}

\* The keys of those caches: one index more than a config may declare.
GenKeys == Keys \cup {MaxItems}

\* Caches of every shape over the keys, gaps in the indices included.
GenCaches ==
    UNION {{[EmptyCache EXCEPT !.items = f] : f \in [K -> GenItems]} : K \in SUBSET GenKeys}

GenInit ==
    /\ cache \in GenCaches
    /\ disk = cache
    /\ pc = "gen"
    /\ result = "none"
    /\ cfg = NoConfig
    /\ tars_pubkey = 0
    /\ item_redeemed = FALSE
    /\ config_lines = << >>
    /\ st = NoUpload
    /\ tries = NoTries
    /\ interrupted = FALSE
    /\ stopped = FALSE
    /\ errors = << >>
    /\ remote_lines = {}
    /\ accounts = 0
    /\ tars_account = NoAccount
    /\ funds = NoFunds
    /\ label = NoLabel
    /\ cleared = FALSE
    /\ tmp_file = NoFile
    /\ txs = << >>
    /\ asked = NoAsked
    /\ calc = NoCalc

\* let config_lines = generate_config_lines(num_items, &cache.items)?;
GenerateLines(n) ==
    /\ pc = "gen"
    /\ LET g == generate_config_lines(n, cache)
       IN  /\ config_lines' = g.lines
           /\ result' = IF g.ok THEN "ok" ELSE g.err
    /\ cfg' = [number |-> n, hidden |-> FALSE]
    /\ pc' = "gen_done"
    /\ UNCHANGED << disk, cache, tars_pubkey, item_redeemed, st, tries, interrupted,
                    stopped, errors, remote_lines, accounts,
                    tars_account, funds >>
    /\ UNCHANGED << label, cleared, tmp_file, txs, asked, calc >>

GenNext == \E n \in 0 .. MaxItems : GenerateLines(n)

GenSpec == GenInit /\ [][GenNext]_vars

\* --------------------------------------- repeated runs, every write fair

\* The deploy is run again and again on a cache of MaxItems items, with a
\* config that declares them and an environment that works (the payer holds
\* the cost of the account); no run is killed or interrupted.  A write that is submitted again and again is confirmed at
\* some point.
LiveInit ==
    /\ disk \in {FreshCache(MaxItems, w) : w \in BOOLEAN}
    /\ pc = "idle"
    /\ result = "none"
    /\ interrupted = FALSE
    /\ remote_lines = {}
    /\ accounts = 0
    /\ tars_account = NoAccount
    /\ tmp_file = NoFile
    /\ calc = NoCalc
    /\ FreshRun

LiveNext ==
    \/ StartDeploy(MaxItems, FALSE, "ok")
    \/ CreateTars("ok", lamports_needed(MaxItems, FALSE))
    \/ SyncProgram
    \/ LoadTars(TRUE)
    \/ WriteItems
    \/ Dispatch
    \/ \E i \in Indices : WriteConfirmed(i)
    \/ \E i \in Indices : WriteTransient(i)
    \/ \E i \in Indices : WriteRejected(i)
    \/ \E i \in Indices : Persist(i)
    \/ UploadReturn
    \/ Collection("ok")
    \/ Exit

LiveSpec ==
    /\ LiveInit
    /\ [][LiveNext]_vars
    /\ WF_vars(LiveNext)
    /\ \A i \in Indices : SF_vars(WriteConfirmed(i))

\* ------------------------------------------------------------- properties

\* The indices of this upload that were handed to the gateway at some point.
Submitted == {i \in Indices : st[i] \notin {"none", "pending"}}

\* The indices of this upload the remote program has confirmed.
Acknowledged == {i \in Indices : st[i] \in {"acked", "confirmed"}}

\* The ordinary items the cache file holds, the collection item not counted.
OrdinaryCount(c) == Cardinality((DOMAIN c.items) \ {COLLECTION})

\* C1: an index recorded on chain in the cache file is in no delta generated
\* afterwards and is never submitted as a write afterwards, whatever config the
\* later runs are given.
C1_NoDoubleWrite ==
    [][ /\ (pc = "write" /\ pc' = "uploading")
            => \A i \in Range(config_lines') : ~OnChain(disk, i)
        /\ \A i \in Indices :
              (st[i] # "inflight" /\ st'[i] = "inflight") => ~OnChain(disk, i) ]_vars

\* C1 witness: a later run writes an index while another one, on chain since an
\* earlier run, is left out of its delta.
C1_Witness ==
    /\ pc = "uploading"
    /\ \E i \in Indices : OnChain(disk, i) /\ st[i] = "none"
    /\ \E j \in Indices : st[j] = "inflight"

\* C2: over all runs, failed, cancelled and killed ones included, an ordinary
\* item that is on chain in the cache file stays on chain in it.
C2_OnChainMonotonic ==
    [][\A i \in Indices : OnChain(disk, i) => OnChain(disk', i)]_vars

\* C2 witness: a run that ended in failure, with an item on chain from an earlier
\* run still on chain.
C2_Witness ==
    /\ pc = "exit"
    /\ result = "AddConfigLineFailed"
    /\ \E i \in Indices : st[i] = "none" /\ OnChain(disk, i)

\* C3: an item the uploader has recorded as confirmed is on chain in the cache
\* file while its worker goes on; a write is in flight only for an index the file
\* does not hold on chain, so a restart re-submits a confirmed item only if its
\* confirmation was never persisted; the file holds no item on chain that the
\* remote program has not confirmed; and no more than MaxWorkers items are
\* between submission and persistence.
C3_CrashSafe ==
    /\ \A i \in Indices :
          /\ st[i] = "confirmed" => OnChain(disk, i)
          /\ st[i] \in {"inflight", "acked"} => ~OnChain(disk, i)
          /\ OnChain(disk, i) => i \in remote_lines
    /\ Cardinality(Busy) <= MaxWorkers

\* C3 witness: after a kill between a confirmation and its persistence, the next
\* run re-submits that index and leaves out one persisted earlier.
C3_Witness ==
    /\ pc = "uploading"
    /\ \E i \in Indices : st[i] = "inflight" /\ i \in remote_lines
    /\ \E j \in Indices : st[j] = "none" /\ OnChain(disk, j)

\* C4: when the deploy is run again and again and a write that keeps being
\* submitted is confirmed at some point, the cache file comes to hold every
\* index 0 .. MaxItems-1 on chain.
C4_Converges == <>(\A i \in Indices : OnChain(disk, i))

\* C4 witness: the run that completes the cache has a delta shorter than the item
\* count: earlier runs confirmed a part and failed the rest.
C4_Witness ==
    /\ pc = "uploading"
    /\ \A i \in Indices : OnChain(disk, i)
    /\ config_lines # << >>
    /\ Len(config_lines) < MaxItems

\* C5: when an upload returns with errors, every index it confirmed is on chain
\* in the cache file, every index it failed is there as the upload found it, and
\* unless the upload was interrupted every entry of the delta was attempted and
\* the next delta is exactly the failed indices.
C5_PartialSuccess ==
    (pc = "exit" /\ result = "AddConfigLineFailed") =>
        /\ \A i \in Confirmed : OnChain(disk, i)
        /\ \A i \in Failed : HasItem(disk, i) /\ disk.items[i] = NewItem
        /\ ~stopped =>
              /\ Pending = {}
              /\ LET g == generate_config_lines(cfg.number, disk)
                 IN  g.ok /\ Range(g.lines) = Failed

\* C5 witness: an upload that was not interrupted confirmed some indices and
\* failed others.
C5_Witness ==
    /\ pc = "exit"
    /\ result = "AddConfigLineFailed"
    /\ ~stopped
    /\ Confirmed # {}
    /\ Failed # {}

\* C6: the delta the generator returns holds exactly the indices below the
\* desired count that the cache has no record of or holds as not on chain, each
\* once, in ascending order.
C6_DeltaExact ==
    (pc = "gen_done" /\ result = "ok") =>
        /\ Range(config_lines) = {i \in 0 .. (cfg.number - 1) : ~OnChain(cache, i)}
        /\ \A p, q \in 1 .. Len(config_lines) : p < q => config_lines[p] < config_lines[q]

\* C6 witness: a delta with an index the cache has no record of and one it holds
\* as not on chain, an index on chain being skipped.
C6_Witness ==
    /\ pc = "gen_done"
    /\ result = "ok"
    /\ \E i \in Range(config_lines) : ~HasItem(cache, i)
    /\ \E i \in Range(config_lines) : HasItem(cache, i)
    /\ \E j \in 0 .. (cfg.number - 1) : OnChain(cache, j)

\* C7: the step that generates the delta changes neither the cache in memory nor
\* the cache file, and generating again from the cache it leaves gives the delta
\* it handed to the uploader.
C7_DeltaIdempotent ==
    [][(pc = "write" /\ pc' # "idle") =>
          /\ cache' = cache
          /\ disk' = disk
          /\ pc' = "uploading" =>
                LET g == generate_config_lines(cfg.number, cache')
                IN  g.ok /\ g.lines = config_lines']_vars

\* C7 witness: a delta of several entries, generated by a run that found an item
\* already on chain.
C7_Witness ==
    /\ pc = "uploading"
    /\ Len(config_lines) >= 2
    /\ Submitted = {}
    /\ \E i \in Indices : OnChain(cache, i)

C9_InFlightFinish ==
    (pc \in {"exit", "collection"} /\ config_lines # << >>) =>
        /\ Busy = {}
        /\ \A i \in Acknowledged : OnChain(disk, i)

\* C9 witness: the upload has seen the flag and a write dispatched before has since
\* been confirmed; the upload waits to record it.
C9_Witness ==
    /\ pc = "uploading"
    /\ stopped
    /\ \E i \in Indices : st[i] = "acked"

\* Whether the count the config declares differs from the ordinary items of
\* the cache file (there is one).
Mismatch == disk # NoFile /\ cfg.number # OrdinaryCount(disk)

\* C10 as claimed: a deploy whose declared count differs from the cache's
\* ordinary items ends with the count-mismatch error, having created no account,
\* written no item and left the cache as it was.
C10_Original ==
    (pc # "idle" /\ Mismatch) =>
        /\ pc = "exit"
        /\ result = "CountMismatch"
        /\ cache = disk
        /\ tars_pubkey = 0
        /\ st = NoUpload

\* C10 as amended: such a deploy ends at its first checks, having created no
\* account, written no item and left the cache as it was; the error is the
\* count mismatch unless the cache is empty, a cached item fails its field check
\* or the client setup fails, which are reported first.
C10_CountMismatch ==
    (pc # "idle" /\ Mismatch) =>
        /\ pc = "exit"
        /\ cache = disk
        /\ tars_pubkey = 0
        /\ st = NoUpload
        /\ IF disk.items = << >> THEN result = "CacheFileNotFound"
           ELSE IF item_errors(disk) # {} THEN result \in item_errors(disk)
           ELSE result \in {"SetupError", "CountMismatch"}

\* C10 witness: the count mismatch is reported for a cache whose entries, the
\* collection item counted in, are as many as the config declares.
C10_Witness ==
    /\ pc = "exit"
    /\ result = "CountMismatch"
    /\ collection_in_cache(disk)
    /\ cfg.number = Cardinality(DOMAIN disk.items)

\* C11 as claimed: a deploy that declares three items against a cache without
\* items does not fail on the cache or on the count: it goes on to the upload.
C11_Original ==
    (pc = "exit" /\ cfg.number = 3 /\ ~cfg.hidden /\ cache.items = << >>) =>
        result \notin {"CacheFileNotFound", "CountMismatch"}

\* C11 as amended: a deploy that declares three items against a cache that
\* holds items 0, 1, 2, none on chain, generates the delta 0, 1, 2 and starts the
\* upload of the three; against a cache that holds no item at all a deploy ends
\* with CacheFileNotFound, whatever count it declares.
C11_FirstDelta ==
    /\ [][(/\ pc = "write"
            /\ pc' \notin {"idle", "write"}
            /\ ~cfg.hidden
            /\ cfg.number = 3
            /\ \A i \in 0 .. 2 : ~OnChain(cache, i)) =>
              (pc' = "uploading" /\ config_lines' = << 0, 1, 2 >>)]_vars
    /\ []((pc # "idle" /\ cache.items = << >>) =>
              (pc = "exit" /\ result = "CacheFileNotFound"))

\* C11 witness: the three items of a cache with nothing on chain are being
\* written, the first of them submitted.
C11_Witness ==
    /\ pc = "uploading"
    /\ config_lines = << 0, 1, 2 >>
    /\ remote_lines = {}
    /\ st[0] = "inflight"

\* C12: once the cache file holds a program address, no step of a deploy, of
\* set-collection, remove-collection, mint, update or withdraw changes or
\* empties it; an account is created only while the file's address is empty,
\* and the address written is that of the account just created.
C12_AddressImmutable ==
    [][ /\ disk.tars # 0 => disk'.tars = disk.tars
        /\ accounts' # accounts => (disk.tars = 0 /\ cache.tars = 0)
        /\ disk'.tars # disk.tars => (pc = "created" /\ disk'.tars = accounts) ]_vars

\* C12 witness: remove-collection has rewritten a cache file that holds an
\* address: the collection item and the mint are gone, the address is there.
C12_Witness ==
    /\ pc = "exit"
    /\ result = "RemoveCollectionOk"
    /\ cache = disk
    /\ disk.tars # 0
    /\ disk.collection_mint = 0
    /\ ~HasItem(disk, COLLECTION)

\* C13: the address of a created account is in the cache file before the writing
\* step or the collection step starts, and whenever no command runs the cache
\* file holds the address of the account created last: no account of the
\* ledger is unknown to it.
C13_NoOrphan ==
    /\ pc \in {"write", "uploading", "collection"} =>
          (tars_pubkey # 0 /\ disk.tars = tars_pubkey)
    /\ (pc = "idle" /\ accounts > 0) => disk.tars = accounts

\* C14: the cost compared is that of the account size computed from the config;
\* a balance below it ends the deploy with BalanceTooLow, no account created and
\* the address of the cache still empty; a balance equal to it, or above, is
\* not refused.
C14_BalanceCheck ==
    /\ [][funds'.lamports > 0 =>
             /\ funds'.lamports = lamports_needed(cfg'.number, cfg'.hidden)
             /\ funds'.balance < funds'.lamports =>
                   /\ accounts' = accounts
                   /\ tars_account' = tars_account
                   /\ disk' = disk]_vars
    /\ [](funds.lamports > 0 =>
             IF funds.balance < funds.lamports
             THEN /\ pc = "exit"
                  /\ result = "BalanceTooLow"
                  /\ tars_pubkey = 0
                  /\ cache.tars = 0
                  /\ disk.tars = 0
             ELSE ~(pc = "exit" /\ result = "BalanceTooLow"))

\* C14 witness: the account was created by a payer who held exactly its cost.
C14_Witness ==
    /\ pc = "created"
    /\ funds.lamports > 0
    /\ funds.balance = funds.lamports
    /\ tars_pubkey = accounts

\* C15: a deploy that finds an address in the cache which does not parse, or
\* whose account the ledger does not return, ends there with the error of that
\* address: no account is created, no write submitted, nothing changed in the
\* program or the cache; only an address that parses and resolves lets the run
\* go on.
C15_UnreachableFails ==
    [][(pc = "ensure" /\ cache.tars # 0 /\ pc' \notin {"idle", "ensure"}) =>
          /\ accounts' = accounts
          /\ disk' = disk
          /\ cache' = cache
          /\ remote_lines' = remote_lines
          /\ tars_account' = tars_account
          /\ st' = NoUpload
          /\ IF parses(cache.tars) /\ resolves(cache.tars)
             THEN pc' \in {"write", "exit"}
             ELSE pc' = "exit"
          /\ pc' = "exit" =>
                result' = (IF parses(cache.tars) THEN "TarsNotFound"
                           ELSE "InvalidTarsAddress")]_vars

\* C15 witness: a deploy has ended on an address that names no account.
C15_Witness ==
    /\ pc = "exit"
    /\ result = "TarsNotFound"
    /\ tars_pubkey = StaleAddress
    /\ cache = disk
    /\ accounts = 0

\* C16: an upload that returns errors ends the deploy with the one
\* AddConfigLineFailed error: the run does not reach the collection step, the
\* program's collection and the collection item are left as they were, and the
\* items the upload confirmed are on chain in the cache file.
C16_ErrorsStop ==
    [][(pc = "uploading" /\ pc' \notin {"idle", "uploading"}) =>
          IF errors' # << >>
          THEN /\ pc' = "exit"
               /\ result' = "AddConfigLineFailed"
               /\ tars_account' = tars_account
               /\ disk'.collection_mint = disk.collection_mint
               /\ HasItem(disk, COLLECTION) =>
                     disk'.items[COLLECTION] = disk.items[COLLECTION]
               /\ \A i \in Confirmed : OnChain(disk', i)
          ELSE pc' = "collection"]_vars

\* C16 witness: a deploy of a cache with a collection item has ended on the
\* upload's errors, an item confirmed and the collection not attached.
C16_Witness ==
    /\ pc = "exit"
    /\ result = "AddConfigLineFailed"
    /\ Confirmed # {}
    /\ HasItem(disk, COLLECTION)
    /\ ~OnChain(disk, COLLECTION)
    /\ tars_account.collection_mint = 0

\* C17 as claimed: a deploy of a cache with the collection item, run when items
\* have been minted, does not end in success.
C17_Original ==
    (pc = "exit" /\ HasItem(cache, COLLECTION) /\ item_redeemed) => result # "ok"

\* C17 as amended: the collection step of such a deploy sends nothing and
\* changes nothing, and the deploy ends in success.
C17_MintedSkips ==
    [][(/\ pc = "collection"
        /\ HasItem(cache, COLLECTION)
        /\ tars_account.items_redeemed > 0
        /\ pc' \notin {"idle", "collection"}) =>
          /\ pc' = "exit"
          /\ result' = "ok"
          /\ cache' = cache
          /\ disk' = disk
          /\ tars_account' = tars_account]_vars

\* C17 witness: a deploy has ended in success with the collection item not on
\* chain, an item having been minted.
C17_Witness ==
    /\ pc = "exit"
    /\ result = "ok"
    /\ tars_account.items_redeemed > 0
    /\ HasItem(cache, COLLECTION)
    /\ ~cache.items[COLLECTION].on_chain

\* C18: the collection step calls create_and_set_collection (the call fails, or
\* it changes the program and the cache) only for a collection item that is in
\* the cache and not on chain, no item being minted; with the collection item on
\* chain the step changes neither the program nor the cache and ends in success.
C18_CollectionGuard ==
    [][(pc = "collection" /\ pc' = "exit") =>
          /\ (result' # "ok" \/ tars_account' # tars_account \/ disk' # disk
                \/ cache' # cache) =>
                /\ HasItem(cache, COLLECTION)
                /\ ~cache.items[COLLECTION].on_chain
                /\ tars_account.items_redeemed = 0
          /\ OnChain(cache, COLLECTION) =>
                /\ result' = "ok"
                /\ tars_account' = tars_account
                /\ disk' = disk
                /\ cache' = cache]_vars

\* C18 witness: a deploy has gone through the collection step with the
\* collection item on chain in the cache while the program holds no collection
\* (it was removed with --tars): nothing was sent.
C18_Witness ==
    /\ pc = "exit"
    /\ result = "ok"
    /\ tars_pubkey # 0
    /\ OnChain(cache, COLLECTION)
    /\ tars_account.collection_mint = 0

\* C19: a deploy whose config has hidden settings generates no delta, starts no
\* upload and writes no config line, whatever the cache records as on chain.
C19_HiddenSkips ==
    /\ [][cfg'.hidden => remote_lines' = remote_lines]_vars
    /\ [](cfg.hidden =>
             /\ config_lines = << >>
             /\ st = NoUpload
             /\ pc # "uploading")

\* C19 witness: a deploy with hidden settings has passed the writing step on a
\* cache that holds an item on chain and an item not on chain.
C19_Witness ==
    /\ pc = "collection"
    /\ cfg.hidden
    /\ \E i \in Indices : OnChain(cache, i)
    /\ \E j \in Indices : HasItem(cache, j) /\ ~OnChain(cache, j)

\* Nothing is left for a deploy to do on cache `c`: it holds an address, its
\* items are on chain (or the config has hidden settings), and so is its
\* collection item if it has one.
NothingLeft(c, hidden) ==
    /\ c.tars # 0
    /\ hidden \/ \A i \in (DOMAIN c.items) \ {COLLECTION} : c.items[i].on_chain
    /\ HasItem(c, COLLECTION) => c.items[COLLECTION].on_chain

\* C20: a deploy that has passed its first checks on a cache that leaves nothing
\* to do (and has not uploaded anything itself) creates no account, submits no
\* write, sends no collection transaction and leaves the cache as it is; it
\* goes from step to step and ends in success, unless the program's state
\* cannot be fetched.
C20_RerunNoop ==
    [][(/\ pc \in {"ensure", "write", "collection"}
        /\ st = NoUpload
        /\ NothingLeft(cache, cfg.hidden)
        /\ pc' \notin {"idle", pc}) =>
          /\ accounts' = accounts
          /\ remote_lines' = remote_lines
          /\ tars_account' = tars_account
          /\ disk' = disk
          /\ cache' = cache
          /\ st' = NoUpload
          /\ pc = "ensure" => (pc' = "write" \/
                                (pc' = "exit" /\ result' \in {"TarsNotFound",
                                                               "InvalidTarsAddress"}))
          /\ pc = "write" => pc' = "collection"
          /\ pc = "collection" => (pc' = "exit" /\ result' = "ok")]_vars

\* C20 witness: a deploy of a cache whose items were all on chain has ended in
\* success without starting an upload.
C20_Witness ==
    /\ pc = "exit"
    /\ result = "ok"
    /\ ~cfg.hidden
    /\ cfg.number = MaxItems
    /\ st = NoUpload
    /\ funds = NoFunds
    /\ \A i \in Indices : OnChain(cache, i)

\* C21: the total step count of a deploy is 1, plus 1 if the config lines are
\* written (the config has no hidden settings), plus 1 if the cache holds the
\* collection item, and every progress label "step i of n" the deploy prints
\* has 1 <= i <= n.
C21_Labels ==
    label # NoLabel =>
        /\ label.n = 1 + (IF cfg.hidden THEN 0 ELSE 1)
                       + (IF collection_in_cache(cache) THEN 1 ELSE 0)
        /\ label.i # 0 => (1 <= label.i /\ label.i <= label.n)

\* C22: the cancellation flag is cleared before each upload starts, so a flag
\* set before the writing step (a stale flag) does not stop the upload from
\* dispatching; the upload stops only at a flag it finds set at a dispatch,
\* which is one set after the clearing.
C22_StaleFlagCleared ==
    /\ [][(pc = "write" /\ pc' = "uploading") => ~interrupted']_vars
    /\ [][(~stopped /\ stopped') => (pc = "uploading" /\ interrupted)]_vars

\* The flag was set ahead of the upload and cleared, and the upload has
\* dispatched a write all the same.
C22_Witness ==
    /\ pc = "uploading"
    /\ cleared
    /\ ~interrupted
    /\ ~stopped
    /\ Submitted # {}

\* C23: a write that fails with a transient error is retried at most
\* MaxRetries times and becomes a permanent error of its index only when that
\* bound is used up; a write the remote program rejects becomes an error of its
\* index on that answer, however many retries are left, and an index with an
\* error is not submitted again by that upload.  The errors are what the
\* upload returns.
C23_RetryBound ==
    /\ [](\A i \in Indices : tries[i] <= MaxRetries)
    /\ [][\A i \in Indices :
             /\ (tries'[i] > tries[i]) =>
                    (st[i] = "inflight" /\ st'[i] = "inflight" /\ tries'[i] = tries[i] + 1)
             /\ (st[i] # "exhausted" /\ st'[i] = "exhausted") =>
                    (st[i] = "inflight" /\ tries[i] = MaxRetries)
             /\ (st[i] # "rejected" /\ st'[i] = "rejected") => st[i] = "inflight"
             /\ (st[i] \in {"rejected", "exhausted"}) =>
                    (st'[i] = st[i] \/ st' = NoUpload)]_vars
    /\ [][(pc = "uploading" /\ pc' \in {"exit", "collection"}) =>
             \A i \in Failed : \E p \in 1 .. Len(errors') :
                errors'[p] = [indices |-> {i}, msg |-> st[i]]]_vars

\* One write was given up after its retries, another was rejected, and a
\* third is at its last retry.
C23_Witness ==
    \E i, j, k \in Indices :
        /\ st[i] = "exhausted"
        /\ st[j] = "rejected"
        /\ st[k] = "inflight"
        /\ tries[k] = MaxRetries

\* C24: the workers' updates of the shared cache are mutually exclusive: at
\* most one worker is between taking the lock and giving it back, so the cache
\* it marks and writes holds its own mark on top of the file's contents and no
\* other worker's; the lock is taken only after the worker's write has been
\* answered, and a worker that holds it has no network call in flight and
\* starts none.
C24_MutualExclusion ==
    /\ [](Cardinality(Holders) <= 1)
    /\ [](\A i \in Indices :
             st[i] \in {"marked", "written"} => cache = mark_confirmed(disk, i))
    /\ [][\A i \in Indices :
             /\ (st[i] # "locked" /\ st'[i] = "locked") => st[i] = "acked"
             /\ (i \in Holders) => st'[i] # "inflight"]_vars

\* One worker has marked its item under the lock while another, whose write
\* was confirmed too, waits for the lock.
C24_Witness ==
    \E i, j \in Indices :
        /\ st[i] = "marked"
        /\ st[j] = "acked"

\* C25: persist writes the whole cache atomically: every step leaves the cache
\* file as it was or replaces it by a complete cache (the one written to the
\* temporary file, which is the cache in memory), so a process killed at any
\* point of a persist leaves a file that holds the complete previous or the
\* complete new contents, and the file read on restart is never cut short.
C25_AtomicPersist ==
    /\ [][disk' = disk \/ disk' = tmp_file \/ disk' = cache']_vars
    /\ [][(tmp_file' # tmp_file /\ tmp_file' # NoFile) => tmp_file' = cache']_vars
    /\ [][(Running /\ pc' = "idle") => disk' = disk]_vars
    /\ [](disk.items # << >>)

\* The process was killed after the temporary file was written and before it
\* was renamed: the cache file holds the previous contents.
C25_Witness ==
    /\ pc = "idle"
    /\ tmp_file # NoFile
    /\ tmp_file # disk

\* C26 as stated: while the uploader runs, the cache in memory and the cache
\* file do not change; what it confirmed is recorded by process_deploy.
C26_Original ==
    [][(pc = "uploading" /\ pc' = "uploading") => (cache' = cache /\ disk' = disk)]_vars

\* C26: during the writing step the cache is in the uploader's hands: every
\* change of the cache in memory while the upload runs is the uploader's mark
\* of one confirmed item, persisted with it, and process_deploy itself changes
\* neither the cache in memory before it calls the uploader nor when the
\* uploader has returned.
C26_UploaderWrites ==
    [][/\ (pc = "write" /\ pc' # "idle") => (cache' = cache /\ disk' = disk)
       /\ (pc = "uploading" /\ pc' \in {"collection", "exit"}) =>
              (cache' = cache /\ disk' = cache)
       /\ (pc = "uploading" /\ pc' = "uploading" /\ cache' # cache) =>
              \E i \in Indices :
                 /\ st[i] = "acked"
                 /\ st'[i] = "confirmed"
                 /\ cache' = mark_confirmed(cache, i)
                 /\ disk' = cache']_vars

\* The upload has returned to process_deploy with items it marked and
\* persisted itself.
C26_Witness ==
    /\ pc \in {"collection", "exit"}
    /\ Confirmed # {}
    /\ \A i \in Confirmed : OnChain(cache, i) /\ OnChain(disk, i)

\* An item of the cache that the delta of `number` items would include and
\* that has an empty name or an empty metadata link.
EmptyFieldInDelta(c, number) ==
    \E i \in 0 .. number - 1 :
        /\ HasItem(c, i)
        /\ ~c.items[i].on_chain
        /\ c.items[i].name = "" \/ c.items[i].metadata_link = ""

C28_CacheNotFound ==
    [][(pc = "idle" /\ pc' # "idle" /\ (disk = NoFile \/ disk.items = << >>)) =>
          /\ pc' = "exit"
          /\ result' = "CacheFileNotFound"
          /\ disk' = disk
          /\ accounts' = accounts
          /\ tars_account' = tars_account
          /\ remote_lines' = remote_lines
          /\ st' = NoUpload]_vars

\* A deploy has failed over a cache file that is there and holds no items.
C28_Witness ==
    /\ pc = "exit"
    /\ result = "CacheFileNotFound"
    /\ disk # NoFile
    /\ disk.items = << >>
    /\ accounts = 0

\* C29: the aggregate item-write error lists each distinct error message
\* exactly once, and the count it reports is the number of errors the upload
\* returned, one for each index given up and one for the Interrupted marker,
\* not the number of distinct messages.
C29_AggregateMessage ==
    (pc = "exit" /\ result = "AddConfigLineFailed") =>
        LET m == failure_message(errors)
            distinct == {st[i] : i \in Failed}
                           \cup (IF stopped THEN {"Interrupted"} ELSE {})
        IN  /\ m.count = Cardinality(Failed) + (IF stopped THEN 1 ELSE 0)
            /\ Range(m.causes) = distinct
            /\ Len(m.causes) = Cardinality(distinct)

\* Two writes were rejected: the message counts two errors and lists the one
\* cause.
C29_Witness ==
    /\ pc = "exit"
    /\ result = "AddConfigLineFailed"
    /\ Cardinality(Failed) >= 2
    /\ failure_message(errors).count > Len(failure_message(errors).causes)

\* C30: set-collection and remove-collection change the cache file only after
\* their transaction has succeeded and only when the program was not named with
\* an address override: the file changes only in a step that ends in success,
\* has changed the remote program and has loaded the file, and then it is the
\* loaded cache that is written; with an override (the command holds a new,
\* empty cache) or on any failure the file is left as it was.
C30_CacheAfterSuccess ==
    [][(pc = "idle" /\ result' \in {"SetCollectionOk", "SetCollectionFailed",
                                    "RemoveCollectionOk", "RemoveCollectionFailed"}) =>
          /\ (disk' # disk) =>
                /\ result' \in {"SetCollectionOk", "RemoveCollectionOk"}
                /\ cache' # EmptyCache
                /\ disk' = cache'
                /\ tars_account'.collection_mint =
                      (IF result' = "SetCollectionOk" THEN GivenMint ELSE 0)
          /\ (result' \in {"SetCollectionFailed", "RemoveCollectionFailed"}) =>
                (disk' = disk /\ cache' \in {EmptyCache, disk})
          /\ (cache' = EmptyCache) => disk' = disk]_vars

\* set-collection has succeeded on the program of the cache file and the file
\* names the given mint and no collection item.
C30_Witness ==
    /\ pc = "exit"
    /\ result = "SetCollectionOk"
    /\ cache # EmptyCache
    /\ disk = cache
    /\ disk.collection_mint = GivenMint
    /\ ~HasItem(disk, COLLECTION)
    /\ tars_account.collection_mint = GivenMint

\* C31: set-collection and remove-collection send no transaction when the
\* program has items redeemed or when the payer is not the update authority of
\* the collection's metadata, and set-collection sends none either when the
\* program does not retain authority: such a step ends in failure with nothing
\* sent and the program as it was.
C31_NoTransaction ==
    [][(/\ pc = "idle"
        /\ asked'.cmd \in {"set_collection", "remove_collection"}
        /\ \/ tars_account.items_redeemed > 0
           \/ ~asked'.update_authority
           \/ asked'.cmd = "set_collection" /\ ~asked'.retain_authority) =>
          /\ txs' = << >>
          /\ tars_account' = tars_account
          /\ result' \in {"SetCollectionFailed", "RemoveCollectionFailed"}]_vars

\* set-collection has run on a program that is there, is the payer's, retains
\* authority and has nothing redeemed, with a mint that is a master edition but
\* whose metadata the payer has no authority over: nothing was sent.
C31_Witness ==
    /\ pc = "exit"
    /\ asked.cmd = "set_collection"
    /\ ~asked.given
    /\ resolves(disk.tars)
    /\ ~tars_account.authority_moved
    /\ tars_account.items_redeemed = 0
    /\ asked.retain_authority
    /\ asked.master_edition
    /\ ~asked.update_authority
    /\ txs = << >>
    /\ result = "SetCollectionFailed"

\* The positions of a running deploy.
Deploying == pc \in {"ensure", "created", "write", "uploading", "collection"}

\* C32: a set-collection or remove-collection that succeeds without an address
\* override leaves the cache file without the collection item, with the given
\* mint (set) or no mint (remove) as its collection mint, and with its address,
\* its other items and so its item count as they were; a deploy that starts on
\* a cache file without the collection item counts no collection step in its
\* total, never prints a third step, and at its last position changes neither
\* the cache file nor the program and returns.
C32_DeployAfterCollection ==
    /\ [][(/\ pc = "idle"
           /\ result' \in {"SetCollectionOk", "RemoveCollectionOk"}
           /\ ~asked'.given) =>
             /\ ~HasItem(disk', COLLECTION)
             /\ disk'.collection_mint =
                   (IF result' = "SetCollectionOk" THEN GivenMint ELSE 0)
             /\ disk'.tars = disk.tars
             /\ \A k \in Indices :
                   /\ HasItem(disk', k) <=> HasItem(disk, k)
                   /\ HasItem(disk, k) => disk'.items[k] = disk.items[k]
             /\ \A number \in 0 .. MaxItems :
                   count_mismatch(number, disk') <=> count_mismatch(number, disk)]_vars
    /\ [][(pc = "idle" /\ pc' = "ensure" /\ ~HasItem(disk, COLLECTION)) =>
             label'.n = (IF cfg'.hidden THEN 1 ELSE 2)]_vars
    /\ [][(pc = "collection" /\ ~HasItem(disk, COLLECTION) /\ pc' = "exit") =>
             (disk' = disk /\ tars_account' = tars_account /\ label' = label
              /\ result' = "ok")]_vars
    /\ []((Deploying /\ ~HasItem(disk, COLLECTION)) =>
             (label.i # 3 /\ label.n = (IF cfg.hidden THEN 1 ELSE 2)))

\* A deploy is at its last position on the cache file a set-collection has
\* left: the file names the given mint and has no collection item, and its
\* items were written under a total of two steps.
C32_Witness ==
    /\ pc = "collection"
    /\ disk.collection_mint = GivenMint
    /\ tars_account.collection_mint = GivenMint
    /\ ~HasItem(disk, COLLECTION)
    /\ ~cfg.hidden
    /\ label = [i |-> 2, n |-> 2]
    /\ config_lines # << >>

\* C33: withdraw leaves the cache file as it is, so the file still names the
\* program account once that account is drained and closed; a deploy on such a
\* file never gets past the loading of the program: it creates no account,
\* writes no item and no file, and returns the account-not-found error.
C33_DeployAfterWithdraw ==
    /\ [][(pc = "idle" /\ asked'.cmd = "withdraw") =>
             (disk' = disk /\ (disk.tars # 0 => disk'.tars # 0))]_vars
    /\ []((Deploying /\ tars_account.closed /\ disk.tars = accounts) => pc = "ensure")
    /\ [][(/\ pc = "ensure"
           /\ tars_account.closed
           /\ disk.tars = accounts
           /\ pc' = "exit") =>
             /\ result' = "TarsNotFound"
             /\ accounts' = accounts
             /\ tars_account' = tars_account
             /\ remote_lines' = remote_lines
             /\ disk' = disk]_vars

\* A deploy has returned the account-not-found error on a cache file that
\* names the program account a withdraw has closed.
C33_Witness ==
    /\ pc = "exit"
    /\ result = "TarsNotFound"
    /\ tars_account.closed
    /\ accounts > 0
    /\ disk.tars = accounts
    /\ cache = disk

\* C34: a mint asked for n items sends no transaction when n is 0 or more than
\* the items available less the items redeemed as the program has them at the
\* start, and fails; otherwise it sends mint transactions only, never more than
\* n, with no transaction after one that failed; it fails exactly if one has
\* failed or none was sent, and succeeds only with n transactions sent.
C34_MintCount ==
    [][(pc = "idle" /\ asked'.cmd = "mint") =>
          LET n == asked'.number
              available == tars_account.items_available - tars_account.items_redeemed
          IN  /\ (n = 0 \/ n > available) => (txs' = << >> /\ result' = "MintFailed")
              /\ Len(txs') <= n
              /\ \A i \in 1 .. Len(txs') :
                    /\ txs'[i].tx = "MintNft"
                    /\ ~txs'[i].ok => i = Len(txs')
              /\ result' = "MintOk" <=>
                    (Len(txs') = n /\ n > 0 /\ \A i \in 1 .. n : txs'[i].ok)
              /\ result' \in {"MintOk", "MintFailed"}
              /\ tars_account'.items_redeemed =
                    tars_account.items_redeemed
                       + Cardinality({i \in 1 .. Len(txs') : txs'[i].ok})]_vars

\* A mint asked for two items has stopped at the second: one transaction went
\* through, the next one failed, and the command has failed.
C34_Witness ==
    /\ pc = "exit"
    /\ asked.cmd = "mint"
    /\ asked.number = 2
    /\ Len(txs) = 2
    /\ txs[1].ok
    /\ ~txs[2].ok
    /\ result = "MintFailed"

\* C36: with --list a withdraw sends no transaction and drains nothing, whether
\* or not an address is given; without an address and without --list nothing is
\* sent unless the operator has confirmed, and a refusal where accounts were
\* found is an error; after the confirmation every account found gets its
\* transaction, in a command that succeeds, whichever of them fail.
C36_WithdrawGuards ==
    [][(pc = "idle" /\ asked'.cmd = "withdraw") =>
          /\ asked'.list => (txs' = << >> /\ tars_account' = tars_account)
          /\ (~asked'.given /\ ~asked'.list /\ ~asked'.confirm) =>
                /\ txs' = << >>
                /\ tars_account' = tars_account
                /\ (~tars_account.closed /\ ~tars_account.authority_moved /\ accounts > 0)
                      => result' = "WithdrawFailed"
          /\ (~asked'.given /\ txs' # << >>) =>
                /\ asked'.confirm
                /\ result' = "WithdrawOk"
                /\ \E found \in payer_accounts :
                      /\ Len(txs') = Cardinality(found)
                      /\ \A a \in found : \E i \in 1 .. Len(txs') : txs'[i].account = a
          /\ \A i \in 1 .. Len(txs') : txs'[i].tx = "WithdrawFunds"]_vars

\* A withdraw without an address has gone through two accounts after the
\* confirmation: the first could not be drained, the second was.
C36_Witness ==
    /\ pc = "exit"
    /\ asked.cmd = "withdraw"
    /\ ~asked.given
    /\ ~asked.list
    /\ asked.confirm
    /\ Len(txs) = 2
    /\ ~txs[1].ok
    /\ txs[2].ok
    /\ result = "WithdrawOk"
    /\ tars_account.closed

\* C37: update sends its update-config transaction only when the payer is the
\* program's authority, and it is the first transaction it sends; the
\* transaction that hands the authority over is sent only second, only if a
\* new authority was given and only after the update-config transaction went
\* through; nothing else is sent, and the cache file is never written.
C37_UpdateOrder ==
    [][(pc = "idle" /\ asked'.cmd = "update") =>
          /\ disk' = disk
          /\ Len(txs') <= 2
          /\ txs' # << >> =>
                /\ txs'[1].tx = "UpdateTars"
                /\ ~tars_account.authority_moved
                /\ resolves(txs'[1].account)
          /\ Len(txs') = 2 =>
                /\ txs'[2].tx = "UpdateAuthority"
                /\ asked'.new_authority
                /\ txs'[1].ok
          /\ tars_account'.authority_moved =>
                (tars_account.authority_moved \/ (Len(txs') = 2 /\ txs'[2].ok))
          /\ result' = "UpdateOk" =>
                (txs' # << >> /\ \A i \in 1 .. Len(txs') : txs'[i].ok)]_vars

\* An update with a new authority has sent both transactions and the program
\* is no longer the payer's.
C37_Witness ==
    /\ pc = "exit"
    /\ asked.cmd = "update"
    /\ asked.new_authority
    /\ Len(txs) = 2
    /\ txs[1].ok
    /\ txs[2].ok
    /\ tars_account.authority_moved
    /\ result = "UpdateOk"

\* ------------------------------------------- computations on their own

\* Unsigned 64-bit integers are held as eight bytes, the lowest first, so that
\* every operation on them is exact.
Limb == 256

Limbs == 8

\* The bytes of a small number, lowest first, `count` of them.
RECURSIVE to_limbs(_, _)
to_limbs(n, count) ==
    IF count = 0 THEN << >> ELSE << n % Limb >> \o to_limbs(n \div Limb, count - 1)

\* A small number as a u64.
u64(n) == to_limbs(n, Limbs)

\* u64::MAX
U64_MAX == [i \in 1 .. Limbs |-> Limb - 1]

\* 2^63: the least u64 that is negative when read as an i64.
U64_SIGN == [i \in 1 .. Limbs |-> IF i = Limbs THEN Limb \div 2 ELSE 0]

\* x * k + carry for a number of any length and small k: the exact product.
RECURSIVE mul_small(_, _, _)
mul_small(x, k, carry) ==
    IF x = << >>
    THEN IF carry = 0 THEN << >>
         ELSE << carry % Limb >> \o mul_small(<< >>, k, carry \div Limb)
    ELSE LET t == Head(x) * k + carry
         IN  << t % Limb >> \o mul_small(Tail(x), k, t \div Limb)

\* x + y + carry for numbers of any length.
RECURSIVE add(_, _, _)
add(x, y, carry) ==
    IF x = << >> /\ y = << >>
    THEN IF carry = 0 THEN << >> ELSE << carry >>
    ELSE LET a == IF x = << >> THEN 0 ELSE Head(x)
             b == IF y = << >> THEN 0 ELSE Head(y)
             t == a + b + carry
         IN  << t % Limb >>
                \o add(IF x = << >> THEN x ELSE Tail(x),
                       IF y = << >> THEN y ELSE Tail(y), t \div Limb)

\* The exact product of two numbers of any length.
RECURSIVE mul(_, _)
mul(x, y) ==
    IF y = << >> THEN << >>
    ELSE add(mul_small(x, Head(y), 0), << 0 >> \o mul(x, Tail(y)), 0)

\* The number fits in a u64: nothing but zeros above the eighth byte.
fits_u64(x) == \A i \in 1 .. Len(x) : i > Limbs => x[i] = 0

\* The number modulo 2^64: its eight lowest bytes.
wrap_u64(x) == [i \in 1 .. Limbs |-> IF i <= Len(x) THEN x[i] ELSE 0]

\* a < b for two u64, from the highest byte down.
RECURSIVE less_from(_, _, _)
less_from(a, b, i) ==
    IF i = 0 THEN FALSE
    ELSE IF a[i] # b[i] THEN a[i] < b[i]
    ELSE less_from(a, b, i - 1)

less_u64(a, b) == less_from(a, b, Limbs)

\* The u64 is negative when cast with `as i64`: its highest bit is set.
negative_i64(a) == a[Limbs] >= Limb \div 2

\* (a as i64) < (b as i64): two's complement keeps the order within a sign.
less_i64(a, b) ==
    IF negative_i64(a) # negative_i64(b) THEN negative_i64(a) ELSE less_u64(a, b)

\* The times a mint is looked at: the clock and the dates of the settings.
Dates == {u64(0), u64(1), u64(2), u64(3), U64_SIGN, U64_MAX}

Clocks == {u64(1), u64(2)}

\* Option<i64>: the go-live date of the program.
GoLiveDates == {[some |-> FALSE, date |-> u64(0)]} \cup
               {[some |-> TRUE, date |-> d] : d \in {u64(0), u64(1), u64(2), u64(3)}}

\* Option<WhitelistMintSettings>: none, with presale, or without it.
WhitelistSettings == {"none", "presale", "no_presale"}

\* Option<EndSettings>: none, a date or an amount, with its number (a u64).
EndSettings ==
    {[end_setting_type |-> "none", number |-> u64(0)]} \cup
    {[end_setting_type |-> "Date", number |-> d] : d \in Dates} \cup
    {[end_setting_type |-> "Amount", number |-> n] : n \in {u64(0), u64(1), u64(2), U64_SIGN}}

\* A mint that holds the authority to the go-live date as well.
mint_refusal_everyone(q) ==
    IF q.gatekeeper THEN "GatekeeperInUse"
    ELSE IF q.items_redeemed >= q.items_available THEN "TarsEmpty"
    ELSE LET live == q.go_live_date.some /\ less_i64(q.go_live_date.date, q.mint_date)
             mint_enabled == live \/ q.whitelist = "presale"
         IN  IF ~mint_enabled THEN "TarsNotLive"
             ELSE IF q.payer_is_authority THEN "ok"
             ELSE IF q.end_settings.end_setting_type = "Date"
                     /\ less_i64(q.end_settings.number, q.mint_date)
             THEN "TarsNotLive"
             ELSE IF q.end_settings.end_setting_type = "Amount"
                     /\ ~less_u64(u64(q.items_redeemed), q.end_settings.number)
             THEN "EndAmountReached"
             ELSE "ok"

\* mint: the checks before the transaction is built; what the mint is refused
\* with, or "ok".  `q` holds the program's state as fetched, whether the payer
\* is its authority, and Utc::now().timestamp().
mint_refusal(q) ==
    IF q.gatekeeper THEN "GatekeeperInUse"
    ELSE IF q.items_redeemed >= q.items_available THEN "TarsEmpty"
    ELSE IF q.payer_is_authority THEN "ok"
    ELSE LET live == q.go_live_date.some /\ less_i64(q.go_live_date.date, q.mint_date)
             mint_enabled == live \/ q.whitelist = "presale"
         IN  IF ~mint_enabled THEN "TarsNotLive"
             ELSE IF q.end_settings.end_setting_type = "Date"
                     /\ less_i64(q.end_settings.number, q.mint_date)
             THEN "TarsNotLive"
             ELSE IF q.end_settings.end_setting_type = "Amount"
                     /\ ~less_u64(u64(q.items_redeemed), q.end_settings.number)
             THEN "EndAmountReached"
             ELSE "ok"

\* The mints looked at on their own.
MintQuestions ==
    [kind : {"mint"}, done : {FALSE}, refusal : {"unasked"},
     gatekeeper : BOOLEAN, items_redeemed : 0 .. MaxRedeemed,
     items_available : 1 .. 2, payer_is_authority : BOOLEAN,
     go_live_date : GoLiveDates, whitelist : WhitelistSettings,
     end_settings : EndSettings, mint_date : Clocks]

\* mint is called and gets as far as its checks go.
AskMint ==
    /\ calc.kind = "mint"
    /\ ~calc.done
    /\ calc' = [calc EXCEPT !.done = TRUE, !.refusal = mint_refusal(calc)]
    /\ UNCHANGED << disk, cache, pc, result, cfg, tars_pubkey, item_redeemed,
                    config_lines, st, tries, interrupted, stopped, errors,
                    remote_lines, accounts, tars_account, funds, label, cleared,
                    tmp_file, txs, asked >>

\* The item counts an account size is computed for.
MaxSizeItems == 17

\* The account sizes looked at on their own.
SizeQuestions ==
    [kind : {"size"}, done : {FALSE}, size : {0},
     items_available : 0 .. MaxSizeItems, hidden : BOOLEAN]

\* initialize_tars computes the size of the account it asks for.
AskSize ==
    /\ calc.kind = "size"
    /\ ~calc.done
    /\ calc' = [calc EXCEPT !.done = TRUE,
                            !.size = tars_account_size(calc.items_available, calc.hidden)]
    /\ UNCHANGED << disk, cache, pc, result, cfg, tars_pubkey, item_redeemed,
                    config_lines, st, tries, interrupted, stopped, errors,
                    remote_lines, accounts, tars_account, funds, label, cleared,
                    tmp_file, txs, asked >>

\* The decimals of the token mints a price is parsed for (a u8 in the mint).
MaxDecimals == 21

\* The prices of a config: an f64 given by its whole part (below 2^64, or
\* `huge` beyond it), whether it has a fraction, and whether it is negative.
Prices ==
    [whole : {u64(0), u64(1), u64(18), u64(19), U64_MAX},
     fraction : BOOLEAN, huge : BOOLEAN, negative : BOOLEAN]

\* `price as u64`: the fraction is dropped, a negative price gives 0 and a
\* price beyond the range gives u64::MAX.
as_u64(price) ==
    IF price.negative THEN u64(0)
    ELSE IF price.huge THEN U64_MAX
    ELSE price.whole

\* 10^decimals, exact.
RECURSIVE pow10(_)
pow10(decimals) ==
    IF decimals = 0 THEN << 1 >> ELSE mul_small(pow10(decimals - 1), 10, 0)

\* parse_config_price for an SPL-token price:
\* (config.price as u64).checked_mul(10u64.pow(decimals)).  The power is not
\* checked: when it overflows, a build with overflow checks panics and a build
\* without them goes on with the power modulo 2^64.
parse_config_price(price, decimals, overflow_checks) ==
    LET exact == pow10(decimals)
        power == wrap_u64(exact)
        product == mul(as_u64(price), power)
    IN  IF ~fits_u64(exact) /\ overflow_checks
        THEN [status |-> "panic", value |-> u64(0)]
        ELSE IF fits_u64(product)
        THEN [status |-> "Ok", value |-> wrap_u64(product)]
        ELSE [status |-> "PriceMathOverflow", value |-> u64(0)]

\* The prices looked at on their own.
PriceQuestions ==
    [kind : {"price"}, done : {FALSE},
     parsed : {[status |-> "unasked", value |-> u64(0)]},
     price : Prices, decimals : 0 .. MaxDecimals, overflow_checks : BOOLEAN]

\* parse_config_price is called for a config with an SPL token.
AskPrice ==
    /\ calc.kind = "price"
    /\ ~calc.done
    /\ calc' = [calc EXCEPT !.done = TRUE,
                            !.parsed = parse_config_price(calc.price, calc.decimals,
                                                          calc.overflow_checks)]
    /\ UNCHANGED << disk, cache, pc, result, cfg, tars_pubkey, item_redeemed,
                    config_lines, st, tries, interrupted, stopped, errors,
                    remote_lines, accounts, tars_account, funds, label, cleared,
                    tmp_file, txs, asked >>

\* One computation, with inputs of every kind, and its result.
CalcInit ==
    /\ calc \in MintQuestions \cup SizeQuestions \cup PriceQuestions
    /\ disk = NoFile
    /\ pc = "idle"
    /\ result = "none"
    /\ interrupted = FALSE
    /\ remote_lines = {}
    /\ accounts = 0
    /\ tars_account = NoAccount
    /\ tmp_file = NoFile
    /\ FreshRun

CalcNext == AskMint \/ AskSize \/ AskPrice

CalcSpec == CalcInit /\ [][CalcNext]_vars

C38_AccountSize ==
    (calc.kind = "size" /\ calc.done) =>
        LET n == calc.items_available
        IN  /\ calc.hidden => calc.size = CONFIG_ARRAY_START
            /\ ~calc.hidden =>
                  /\ calc.size = CONFIG_ARRAY_START + 4 + n * CONFIG_LINE_SIZE + 8
                                    + 2 * ((n \div 8) + 1)
                  /\ calc.size > CONFIG_ARRAY_START
                  /\ \A m \in 0 .. (n - 1) : tars_account_size(m, FALSE) < calc.size
                  /\ \A m \in 0 .. MaxSizeItems :
                        tars_account_size(m, TRUE) < calc.size

\* The size for eight items without hidden settings: the first count with a
\* second pair of bytes at the end.
C38_Witness ==
    /\ calc.kind = "size"
    /\ calc.done
    /\ ~calc.hidden
    /\ calc.items_available = 8
    /\ calc.size = tars_account_size(7, FALSE) + CONFIG_LINE_SIZE + 2

\* What a price question asks of an exact answer: the price as a whole number
\* in range, so that the cast changes nothing.
PlainPrice(price) == ~price.fraction /\ ~price.huge /\ ~price.negative

\* C39: for a whole price in range, parse_config_price returns the price times
\* 10^decimals when that product fits in a u64 and fails with the price
\* overflow error when it does not, for every decimals value; what it returns
\* is never the product modulo 2^64 of a product that does not fit.
C39_PriceExact ==
    (calc.kind = "price" /\ calc.done /\ PlainPrice(calc.price)) =>
        LET product == mul(calc.price.whole, pow10(calc.decimals))
        IN  /\ fits_u64(product) =>
                  calc.parsed = [status |-> "Ok", value |-> wrap_u64(product)]
            /\ ~fits_u64(product) => calc.parsed.status = "PriceMathOverflow"

====
